---- MODULE Spec2Model ----
(***************************************************************************)
(* A model of the arXiv ingestion pipeline: the OCR fallback client, the   *)
(* paper fetcher with its dedup check, the crawl loop, the chunker, the    *)
(* embedder, the chunk_and_embed step with its statistics, the feature     *)
(* store queries, the text cleaner, the construction of the clients, the   *)
(* steps query_data_warehouse and clean_documents, and the record types.   *)
(*                                                                         *)
(* The module holds several specifications over one set of variables:      *)
(*   SpecOcr    calls of OCRClient.ocr on one client                       *)
(*   SpecCrawl  one crawl_links run (sequential process_paper calls)       *)
(*   SpecConc   process_paper calls interleaved at their store accesses    *)
(*   SpecChunk  DocumentChunker.chunk applied to cleaned documents         *)
(*   SpecEmbed  one DocumentEmbedder.embed call                            *)
(*   SpecMeta   _add_chunks_metadata / _add_embeddings_metadata calls      *)
(*   SpecRag    one chunk_and_embed run                                    *)
(*   SpecFetch  one fetch_all_data call with its worker threads            *)
(*   SpecFetchFair  the same, with every worker thread running on          *)
(*   SpecClean  clean_text applied to a string                             *)
(*   SpecClient constructions of ArxivClient and of OCRClient              *)
(*   SpecSteps  one run of query_data_warehouse or of clean_documents      *)
(*   SpecTyped  the three stages, each on a record of its declared type    *)
(* Each specification moves its own variables and leaves the others alone. *)
(***************************************************************************)
EXTENDS Integers, Sequences, FiniteSets, TLC

VARIABLES
    \* OCRClient
    tesseract_installed,  \* outcome of the availability probe at initialization
    ocr_backends,         \* OCRClient.ocr_backends
    pipeline_options,     \* OCRClient.pipeline_options (backends with cached options)
    ocr_call,             \* the last OCRClient.ocr call: arguments and outcome
    prev_failed,          \* the call before the last one: the backends that failed in it
    \* document store and crawl_links
    papers,               \* the PaperDocument collection, in insertion order
    links,                \* crawl_links' input list
    idx,                  \* number of loop iterations completed
    successful_crawls,    \* crawl_links' local counter
    metadata,             \* crawl_links' metadata dict
    crawl_pc,             \* "loop", "returned" or "raised"
    results,              \* the process_paper calls of the run that returned: link, value
    last,                 \* the last process_paper call: what it did
    crawled_links,        \* the list crawl_links returned
    \* concurrent process_paper calls
    cpc,                  \* position of each concurrent call
    clink,                \* link of each concurrent call
    cret,                 \* return value of each concurrent call
    ccontent,             \* markdown_content held by each concurrent call
    \* DocumentChunker
    docs,                 \* the cleaned documents at hand
    chunked,              \* per document: the chunk models chunk() built
    \* DocumentEmbedder
    emb_call,             \* the DocumentEmbedder.embed call: argument and outcome
    \* the statistics of chunk_and_embed
    meta_fn,              \* which of the two aggregating functions the calls go to
    meta_acc,             \* the metadata dict the calls accumulate into
    folded,               \* the records folded into meta_acc so far, in order
    meta_calls,           \* number of calls made on meta_acc
    \* chunk_and_embed
    cleaned_documents,    \* the step's input list
    rag_pc,               \* "loop", "batches" or "returned"
    rag_idx,              \* number of documents the outer loop has taken
    rag_chunks,           \* chunks: the chunks of the document taken last
    rag_batch,            \* number of batches of rag_chunks already embedded
    embedded_chunks,      \* the step's result list
    rag_metadata,         \* the step's metadata dict
    embed_calls,          \* per DocumentEmbedder.embed call: the ids of its batch
    to_lists,             \* per statistics: the calls that turned sets into lists
    \* fetch_all_data
    future_to_query,      \* the query names submitted to the executor
    futures,              \* per submitted query: its worker's position and result
    fetch_results,        \* fetch_all_data's results dict
    fetch_pc,             \* "collecting" or "returned"
    \* clean_text
    clean_call,           \* the clean_text call: argument and result
    \* ArxivClient and OCRClient construction
    _instance,            \* ArxivClient._instance, the class attribute
    sessions,             \* number of requests.Session objects created
    probes,               \* number of tesseract probes run by ArxivClient()
    constructions,        \* the ArxivClient() calls so far: outcome of each
    ocr_clients,          \* the OCRClient() calls made on their own: outcome of each
    \* the steps query_data_warehouse and clean_documents
    warehouse,            \* the document store: its experts and papers collections
    step_call,            \* the step that was run: arguments and outcome
    \* the stages on records of their declared types
    typed_inputs,         \* per stage: the record of the declared input type it is given
    typed_results         \* per stage: the outcome of its run, once it has run

ocrVars == <<tesseract_installed, ocr_backends, pipeline_options, ocr_call, prev_failed>>
crawlVars == <<papers, links, idx, successful_crawls, metadata, crawl_pc, results, last,
               crawled_links>>
concVars == <<cpc, clink, cret, ccontent>>
chunkVars == <<docs, chunked>>
embVars == <<emb_call>>
\* the feature engineering steps after the chunker, and the dataset queries
metaVars == <<meta_fn, meta_acc, folded, meta_calls>>
ragVars == <<cleaned_documents, rag_pc, rag_idx, rag_chunks, rag_batch, embedded_chunks,
             rag_metadata, embed_calls, to_lists>>
fetchVars == <<future_to_query, futures, fetch_results, fetch_pc>>
cleanVars == <<clean_call>>
\* construction of the clients
clientVars == <<_instance, sessions, probes, constructions, ocr_clients>>
\* the first two feature engineering steps
stepVars == <<warehouse, step_call>>
\* the stages with the record types checked
typedVars == <<typed_inputs, typed_results>>
restVars == <<clientVars, stepVars, typedVars>>
laterVars == <<embVars, metaVars, ragVars, fetchVars, cleanVars, restVars>>
vars == <<ocrVars, crawlVars, concVars, chunkVars, laterVars>>

(***************************************************************************)
(* Bounds of the model.                                                    *)
(***************************************************************************)
MaxCandidates == 3   \* longest explicit candidate list handed to ocr
MaxLinks == 2        \* number of distinct links
MaxRun == 2          \* longest list of links given to crawl_links
MaxProcs == 2        \* number of interleaved process_paper calls
MaxWindows == 2      \* texts are long enough for up to this many full strides
MaxPeriod == 2       \* texts repeat with a period of up to this many characters

(***************************************************************************)
(* OCRClient                                                               *)
(***************************************************************************)
\* The OCR backends docling knows by these names (crawler.py names the first
\* three in _get_pipeline_options' docstring).
Backends == {"easyocr", "tesseract_cli", "tesseract"}

\* Python values that OCRClient.ocr can hand back.
None == [kind |-> "None", backend |-> "-"]
ConversionResult(b) == [kind |-> "ConversionResult", backend |-> b]
\* conv_result.document.export_to_markdown(): the markdown text of that result
export_to_markdown(r) == [kind |-> "str", backend |-> r.backend]

\* OCRClient.__init__: the list built at initialization
InitBackends(installed) ==
    IF installed THEN <<"easyocr", "tesseract_cli">> ELSE <<"easyocr">>

\* backends_to_try = self.ocr_backends.copy(): a new list, not an alias
DefaultCandidatesAliased(shared) == [list |-> shared, alias |-> TRUE]
DefaultCandidates(shared) == [list |-> shared, alias |-> FALSE]

\* OCRClient._get_pipeline_options: caches the options of the backend
_get_pipeline_options(cache, b) == cache \cup {b}

\* OCRClient._ocr: pops the first candidate and converts with it.
\* conv[b] says whether docling's convert succeeds with backend b on this PDF.
_ocr(list, cache, conv) ==
    IF list = <<>>
    THEN [exc |-> "IndexError", value |-> None, rest |-> list, cache |-> cache,
          tried |-> <<>>]
    ELSE LET current_backend == Head(list)
         IN [exc   |-> IF conv[current_backend] THEN "none" ELSE "ConversionError",
             value |-> IF conv[current_backend] THEN ConversionResult(current_backend)
                       ELSE None,
             rest  |-> Tail(list),
             cache |-> _get_pipeline_options(cache, current_backend),
             tried |-> <<current_backend>>]

\* The except branch of ocr with candidates left: return self._ocr(...), that is
\* what _ocr returns (the conversion result itself) or the exception it raises.
Retry(second) == [ret |-> second.value, exc |-> second.exc]

\* OCRClient.ocr. arg = [given |-> FALSE] stands for backends_to_try=None.
\* The result: ret (the returned value), exc (the exception that left ocr, or
\* "none"), tried (the backends attempted, in order), shared (ocr_backends
\* afterwards), cache (pipeline_options afterwards).
ocr(shared, cache, arg, conv) ==
    LET cand == IF arg.given THEN [list |-> arg.list, alias |-> FALSE]
                ELSE DefaultCandidates(shared)
        first == _ocr(cand.list, cache, conv)
        second == _ocr(first.rest, first.cache, conv)
        after(rest) == IF cand.alias THEN rest ELSE shared
    IN  IF first.exc = "none"
        THEN [ret |-> export_to_markdown(first.value), exc |-> "none",
              tried |-> first.tried, shared |-> after(first.rest),
              cache |-> first.cache]
        ELSE IF first.exc = "ConversionError"
        THEN IF first.rest # <<>>
             THEN [ret |-> Retry(second).ret, exc |-> Retry(second).exc,
                   tried |-> first.tried \o second.tried,
                   shared |-> after(second.rest), cache |-> second.cache]
             ELSE [ret |-> None, exc |-> "none", tried |-> first.tried,
                   shared |-> after(first.rest), cache |-> first.cache]
        ELSE [ret |-> None, exc |-> first.exc, tried |-> first.tried,
              shared |-> after(first.rest), cache |-> first.cache]

\* Lists without repetition, of at most n backends
CandidateLists(n) ==
    {s \in UNION {[1..k -> Backends] : k \in 0..n} :
        \A i, j \in DOMAIN s : i # j => s[i] # s[j]}

OcrArgs == {[given |-> FALSE, list |-> <<>>]} \cup
           {[given |-> TRUE, list |-> l] : l \in CandidateLists(MaxCandidates)}

NoCall == [called |-> FALSE, arg |-> [given |-> FALSE, list |-> <<>>],
           candidates |-> <<>>, conv |-> [b \in Backends |-> FALSE],
           ret |-> None, exc |-> "none", tried |-> <<>>]

\* The candidate list a call works on
CandidatesOf(shared, arg) == IF arg.given THEN arg.list ELSE shared

Failed(tried, conv) == {tried[i] : i \in {j \in DOMAIN tried : ~conv[tried[j]]}}

OcrCall ==
    \E arg \in OcrArgs, conv \in [Backends -> BOOLEAN] :
        LET r == ocr(ocr_backends, pipeline_options, arg, conv)
        IN  /\ ocr_backends' = r.shared
            /\ pipeline_options' = r.cache
            /\ ocr_call' = [called |-> TRUE, arg |-> arg,
                            candidates |-> CandidatesOf(ocr_backends, arg),
                            conv |-> conv, ret |-> r.ret, exc |-> r.exc,
                            tried |-> r.tried]
            /\ prev_failed' = [default |-> ocr_call.called /\ ~ocr_call.arg.given,
                                failed |-> Failed(ocr_call.tried, ocr_call.conv)]
            /\ UNCHANGED <<tesseract_installed, crawlVars, concVars, chunkVars, laterVars>>

OcrInit ==
    /\ tesseract_installed \in BOOLEAN
    /\ ocr_backends = InitBackends(tesseract_installed)
    /\ pipeline_options = {}
    /\ ocr_call = NoCall
    /\ prev_failed = [default |-> FALSE, failed |-> {}]

(***************************************************************************)
(* The document store and ArxivClient.process_paper                        *)
(***************************************************************************)
Links == 1..MaxLinks

\* PaperDocument.objects(link=link).first(): is there a stored paper with the link
Exists(store, link) == \E i \in DOMAIN store : store[i].link = link

\* StringField(required=True): save() validates that content is a string
ValidPaper(doc) == doc.content.kind = "str"

\* What the world answers during one process_paper call. A field the call
\* never gets to ask about is "-".
\*   lookup: the store's answer to the existence query ("ok", "error")
\*   meta:   the metadata request ("ok", "status" for a non-200 response,
\*           "noentry", "error" for an exception of the request or the parser)
\*   pdf:    the PDF request ("ok", "status")
\*   conv:   per backend, whether the conversion succeeds
\*   save:   the store's answer to save() ("ok", "error")
NoConv == [b \in Backends |-> FALSE]
Envs ==
    {[lookup |-> "error", meta |-> "-", pdf |-> "-", conv |-> NoConv, save |-> "-"]}
    \cup {[lookup |-> "ok", meta |-> m, pdf |-> "-", conv |-> NoConv, save |-> "-"] :
             m \in {"status", "noentry", "error"}}
    \cup {[lookup |-> "ok", meta |-> "ok", pdf |-> "status", conv |-> NoConv,
           save |-> "-"]}
    \cup {[lookup |-> "ok", meta |-> "ok", pdf |-> "ok", conv |-> c, save |-> s] :
             c \in [Backends -> BOOLEAN], s \in {"ok", "error"}}

\* ArxivClient._fetch_metadata: (success, raised)
_fetch_metadata(env) ==
    [success |-> env.meta = "ok", raised |-> env.meta = "error"]

\* ArxivClient._fetch_pdf
_fetch_pdf(env) == [success |-> env.pdf = "ok"]

\* ArxivClient._fetch_paper: metadata first, the PDF only after it succeeded
_fetch_paper(env) ==
    LET md == _fetch_metadata(env)
    IN  IF md.raised
        THEN [success |-> FALSE, raised |-> TRUE, fetched_pdf |-> FALSE]
        ELSE IF ~md.success
        THEN [success |-> FALSE, raised |-> FALSE, fetched_pdf |-> FALSE]
        ELSE [success |-> _fetch_pdf(env).success, raised |-> FALSE,
              fetched_pdf |-> TRUE]

\* The dedup check of process_paper: the call goes on only for a link not stored
SkipCheck(store, link) == FALSE
AlreadyStored(store, link) == Exists(store, link)

\* PaperDocument(...).save(): validation, then the insert
SavePartial(store, doc, env) ==
    IF ValidPaper(doc) /\ env.save = "ok"
    THEN [ok |-> TRUE, store |-> Append(store, doc)]
    ELSE [ok |-> FALSE, store |-> Append(store, doc)]
Save(store, doc, env) ==
    IF ValidPaper(doc) /\ env.save = "ok"
    THEN [ok |-> TRUE, store |-> Append(store, doc)]
    ELSE [ok |-> FALSE, store |-> store]

\* ArxivClient.process_paper(link, expert) in the store `store`, with the OCR
\* client's state (shared, cache). raised: an exception left process_paper.
Outcome(ret, raised, store, shared, cache, existed, meta, pdf, tried, created) ==
    [ret |-> ret, raised |-> raised, store |-> store, shared |-> shared,
     cache |-> cache, existed |-> existed, fetched_meta |-> meta,
     fetched_pdf |-> pdf, tried |-> tried, created |-> created]

process_paper(store, shared, cache, link, env) ==
    IF env.lookup = "error"
    THEN Outcome(FALSE, TRUE, store, shared, cache, FALSE, FALSE, FALSE, <<>>, FALSE)
    ELSE IF AlreadyStored(store, link)
    THEN Outcome(TRUE, FALSE, store, shared, cache, TRUE, FALSE, FALSE, <<>>, FALSE)
    ELSE
    LET f == _fetch_paper(env)
        o == ocr(shared, cache, [given |-> FALSE, list |-> <<>>], env.conv)
        s == Save(store, [link |-> link, content |-> o.ret], env)
    IN  IF ~f.success
        THEN Outcome(FALSE, FALSE, store, shared, cache, FALSE, TRUE, f.fetched_pdf,
                     <<>>, FALSE)
        ELSE IF o.exc # "none" \/ o.ret = None
        THEN Outcome(FALSE, FALSE, store, o.shared, o.cache, FALSE, TRUE, TRUE,
                     o.tried, FALSE)
        ELSE Outcome(s.ok, FALSE, s.store, o.shared, o.cache, FALSE, TRUE, TRUE,
                     o.tried, s.ok)

(***************************************************************************)
(* crawl_links                                                             *)
(***************************************************************************)
\* metadata.get(key, 0)
Get(md, key) == IF key \in DOMAIN md THEN md[key] ELSE 0

\* int(success): True counts as 1
AsInt(b) == IF b THEN 1 ELSE 0

\* _add_to_metadata
_add_to_metadata(md, success) ==
    [successful |-> Get(md, "successful") + AsInt(success),
     total |-> Get(md, "total") + 1]

\* return links: the step's output is its input list
OnlyFailedLinks(ls, rs) ==
    LET F[i \in 0..Len(ls)] ==
            IF i = 0 THEN <<>>
            ELSE IF rs[i].ret THEN F[i - 1] ELSE Append(F[i - 1], ls[i])
    IN F[Len(ls)]
ReturnedLinks(ls, rs) == ls

NoPaper == [called |-> FALSE, link |-> 0, ret |-> FALSE, raised |-> FALSE,
            existed |-> FALSE, fetched_meta |-> FALSE, fetched_pdf |-> FALSE,
            tried |-> <<>>, created |-> FALSE, before |-> <<>>, 
            env |-> [lookup |-> "-", meta |-> "-", pdf |-> "-", conv |-> NoConv,
                    save |-> "-"]]

LinkLists == UNION {[1..k -> Links] : k \in 0..MaxRun}

CrawlInit ==
    /\ papers = <<>>
    /\ links \in LinkLists
    /\ idx = 0
    /\ successful_crawls = 0
    /\ metadata = [k \in {} |-> 0]
    /\ crawl_pc = "loop"
    /\ results = <<>>
    /\ last = NoPaper
    /\ crawled_links = <<>>

\* One iteration of the loop: process_paper, then the two counters
CrawlStep ==
    /\ crawl_pc = "loop"
    /\ idx < Len(links)
    /\ \E env \in Envs :
        LET link == links[idx + 1]
            r == process_paper(papers, ocr_backends, pipeline_options, link, env)
        IN  /\ papers' = r.store
            /\ ocr_backends' = r.shared
            /\ pipeline_options' = r.cache
            /\ last' = [called |-> TRUE, link |-> link, ret |-> r.ret,
                        raised |-> r.raised, existed |-> r.existed,
                        fetched_meta |-> r.fetched_meta,
                        fetched_pdf |-> r.fetched_pdf, tried |-> r.tried,
                        created |-> r.created, before |-> papers, env |-> env]
            /\ IF r.raised
               THEN /\ crawl_pc' = "raised"
                    /\ UNCHANGED <<idx, successful_crawls, metadata, results>>
               ELSE /\ successful_crawls' = successful_crawls + AsInt(r.ret)
                    /\ metadata' = _add_to_metadata(metadata, r.ret)
                    /\ idx' = idx + 1
                    /\ results' = Append(results, [link |-> link, ret |-> r.ret])
                    /\ UNCHANGED crawl_pc
    /\ UNCHANGED <<links, crawled_links, tesseract_installed, ocr_call, prev_failed,
                   concVars, chunkVars, laterVars>>

\* After the loop: report the metadata and return
CrawlReturn ==
    /\ crawl_pc = "loop"
    /\ idx = Len(links)
    /\ crawl_pc' = "returned"
    /\ crawled_links' = ReturnedLinks(links, results)
    /\ UNCHANGED <<papers, links, idx, successful_crawls, metadata, results, last,
                   ocrVars, concVars, chunkVars, laterVars>>

(***************************************************************************)
(* process_paper calls running concurrently on the one ArxivClient: each   *)
(* store access and each network call is a step of its own.                *)
(***************************************************************************)
Procs == 1..MaxProcs

\* what a concurrent call never touches: crawl_links' locals and the later steps
concRest == <<links, idx, successful_crawls, metadata, crawl_pc, results, last,
              crawled_links, chunkVars, laterVars>>

Finish(p, ret) ==
    /\ cpc' = [cpc EXCEPT ![p] = "done"]
    /\ cret' = [cret EXCEPT ![p] = ret]

\* existing_paper = PaperDocument.objects(link=link).first()
CCheck(p) ==
    /\ cpc[p] = "check"
    /\ \E lookup \in {"ok", "error"} :
        IF lookup = "error" THEN Finish(p, "raised")
        ELSE IF AlreadyStored(papers, clink[p]) THEN Finish(p, "True")
        ELSE cpc' = [cpc EXCEPT ![p] = "metadata"] /\ UNCHANGED cret
    /\ UNCHANGED <<clink, ccontent, papers, ocrVars, concRest>>

\* self._fetch_metadata(arxiv_url)
CFetchMetadata(p) ==
    /\ cpc[p] = "metadata"
    /\ \E m \in {"ok", "status", "noentry", "error"} :
        IF _fetch_metadata([meta |-> m]).success
        THEN cpc' = [cpc EXCEPT ![p] = "pdf"] /\ UNCHANGED cret
        ELSE Finish(p, "False")
    /\ UNCHANGED <<clink, ccontent, papers, ocrVars, concRest>>

\* self._fetch_pdf(arxiv_url)
CFetchPdf(p) ==
    /\ cpc[p] = "pdf"
    /\ \E s \in {"ok", "status"} :
        IF _fetch_pdf([pdf |-> s]).success
        THEN cpc' = [cpc EXCEPT ![p] = "ocr"] /\ UNCHANGED cret
        ELSE Finish(p, "False")
    /\ UNCHANGED <<clink, ccontent, papers, ocrVars, concRest>>

\* markdown_content = self._process_pdf(...)
CProcessPdf(p) ==
    /\ cpc[p] = "ocr"
    /\ \E conv \in [Backends -> BOOLEAN] :
        LET o == ocr(ocr_backends, pipeline_options, [given |-> FALSE, list |-> <<>>],
                     conv)
        IN  /\ ocr_backends' = o.shared
            /\ pipeline_options' = o.cache
            /\ IF o.exc # "none" \/ o.ret = None
               THEN Finish(p, "False") /\ UNCHANGED ccontent
               ELSE /\ cpc' = [cpc EXCEPT ![p] = "save"]
                    /\ ccontent' = [ccontent EXCEPT ![p] = o.ret]
                    /\ UNCHANGED cret
    /\ UNCHANGED <<clink, papers, tesseract_installed, ocr_call, prev_failed, concRest>>

\* PaperDocument(...).save()
CSave(p) ==
    /\ cpc[p] = "save"
    /\ \E sv \in {"ok", "error"} :
        LET s == Save(papers, [link |-> clink[p], content |-> ccontent[p]],
                      [save |-> sv])
        IN  /\ papers' = s.store
            /\ Finish(p, IF s.ok THEN "True" ELSE "False")
    /\ UNCHANGED <<clink, ccontent, ocrVars, concRest>>

ConcInit ==
    /\ cpc = [p \in Procs |-> "check"]
    /\ clink \in [Procs -> Links]
    /\ cret = [p \in Procs |-> "-"]
    /\ ccontent = [p \in Procs |-> None]

(***************************************************************************)
(* DocumentChunker                                                         *)
(***************************************************************************)
CHUNK_SIZE == 250
CHUNK_OVERLAP == 25

Min(a, b) == IF a < b THEN a ELSE b

\* chunk_text(text, chunk_size, chunk_overlap): window i (from 0) starts at
\* i * (size - overlap) and ends at min(len, start + size); the windows that
\* would start at or after the end of the text are empty and dropped.
chunk_text(text, chunk_size, chunk_overlap) ==
    LET stride == chunk_size - chunk_overlap
        n == IF Len(text) = 0 THEN 0 ELSE ((Len(text) - 1) \div stride) + 1
    IN  [i \in 1..n |->
            SubSeq(text, (i - 1) * stride + 1,
                   Min(Len(text), (i - 1) * stride + chunk_size))]

\* A character is the index of a lower-case letter; chunk.encode() gives the
\* UTF-8 bytes, one byte per such character.
encode(chunk) == [i \in 1..Len(chunk) |-> 97 + chunk[i]]

\* hashlib.md5(bytes).hexdigest(): 32 hexadecimal digits. MD5 itself is not
\* reproduced: the digest here is a rolling hash of the bytes, modulo the prime
\* 32749, spread over the 32 digits, so that it depends on every byte and on nothing else.
RECURSIVE md5_fold(_, _, _)
md5_fold(bytes, lo, hi) ==
    \* <<hash of bytes[lo..hi], 31^(hi - lo + 1)>>, both modulo 32749
    IF lo > hi THEN <<0, 1>>
    ELSE IF lo = hi THEN <<bytes[lo] % 32749, 31>>
    ELSE LET mid == (lo + hi) \div 2
             l == md5_fold(bytes, lo, mid)
             r == md5_fold(bytes, mid + 1, hi)
         IN  <<(l[1] * r[2] + r[1]) % 32749, (l[2] * r[2]) % 32749>>
md5_state(bytes) ==
    LET f == md5_fold(bytes, 1, Len(bytes))
    IN  (7 * f[2] + f[1]) % 32749
hexdigest(h) == [k \in 1..32 |-> ((h \div (2 ^ (k % 13))) + k * h) % 16]
md5(bytes) == hexdigest(md5_state(bytes))

\* UUID(hex, version=4): the 128 bits of the digest with the version digit
\* (the 13th) set to 4 and the two top bits of the 17th digit set to 10.
UUID(hex) ==
    [k \in 1..32 |->
        IF k = 13 THEN 4
        ELSE IF k = 17 THEN 8 + (hex[k] % 4)
        ELSE hex[k]]

\* The id DocumentChunker.chunk gives the chunk `chunk` of the document `doc`
chunk_id_per_document(doc, chunk) ==
    UUID(md5(encode(chunk) \o <<doc.id>>))
chunk_id(doc, chunk) == UUID(md5(encode(chunk)))

\* The PaperChunk built for one window
chunk_model_swapped(doc, chunk) ==
    [id |-> chunk_id(doc, chunk),
     content |-> chunk,
     document_id |-> doc.expert_id,
     expert_id |-> doc.id,
     metadata |-> [chunk_size |-> CHUNK_SIZE, chunk_overlap |-> CHUNK_OVERLAP]]
chunk_model(doc, chunk) ==
    [id |-> chunk_id(doc, chunk),
     content |-> chunk,
     document_id |-> doc.id,
     expert_id |-> doc.expert_id,
     metadata |-> [chunk_size |-> CHUNK_SIZE, chunk_overlap |-> CHUNK_OVERLAP]]

\* the chunker asking for windows that do not overlap
chunk_without_overlap(doc) ==
    LET chunks == chunk_text(doc.content, CHUNK_SIZE, 0)
    IN  [i \in 1..Len(chunks) |-> chunk_model(doc, chunks[i])]

\* DocumentChunker.chunk
chunk(doc) ==
    LET chunks == chunk_text(doc.content, CHUNK_SIZE, CHUNK_OVERLAP)
    IN  [i \in 1..Len(chunks) |-> chunk_model(doc, chunks[i])]

\* Cleaned texts: the letters repeat with a period, and the lengths lie
\* around the window boundaries: a whole number of strides, and one character
\* and the overlap more than that.
Text(period, n) == [i \in 1..n |-> (i - 1) % period]
Stride == CHUNK_SIZE - CHUNK_OVERLAP
TextLengths ==
    {0, 1} \cup {n * Stride + r : n \in 1..MaxWindows,
                                  r \in {0, 1, CHUNK_OVERLAP}}
Texts == {Text(p, n) : p \in 1..MaxPeriod, n \in TextLengths}
DocIds == 1..2
ExpertIds == 1..2
CleanedDocs == [id : DocIds, expert_id : ExpertIds, content : Texts]
Slots == 1..2

ChunkInit ==
    /\ docs \in [Slots -> CleanedDocs]
    /\ docs[1].id = 1 /\ docs[1].expert_id = 1
    /\ chunked = [s \in Slots |-> [done |-> FALSE, chunks |-> <<>>]]

ChunkDoc(s) ==
    /\ ~chunked[s].done
    /\ chunked' = [chunked EXCEPT ![s] = [done |-> TRUE, chunks |-> chunk(docs[s])]]
    /\ UNCHANGED <<docs, ocrVars, crawlVars, concVars, laterVars>>

(***************************************************************************)
(* DocumentEmbedder                                                        *)
(***************************************************************************)
MaxBatch == 2        \* longest list handed to DocumentEmbedder.embed

\* A Python list is the record [list |-> its items]; a model object is the
\* record of its attributes, so that its class shows in the attributes it has.
PyList(items) == [list |-> items]
isinstance_list(v) == DOMAIN v = {"list"}
hasattr(obj, name) == name \in DOMAIN obj

\* get_category(): Query answers QUERIES, PaperChunk and EmbeddedPaperChunk
\* answer PAPERS. A query is the record without a parent document.
get_category(doc) == IF hasattr(doc, "document_id") THEN "papers" ELSE "queries"

\* The vector the embedding model computes for one text
Vector(content) == <<md5_state(encode(content)), Len(content)>>

\* cls._embedding_model(embedding_inputs, to_list=True): one vector per input
\* for a model that keeps its contract ("aligned"); a model that breaks it
\* hands back one vector too few or one too many.
ModelBehaviours == {"aligned", "short", "long"}
EmbeddingModel(embedding_inputs, behaviour) ==
    LET vectors == [i \in 1..Len(embedding_inputs) |-> Vector(embedding_inputs[i])]
    IN  CASE behaviour = "aligned" -> vectors
          [] behaviour = "short" -> SubSeq(vectors, 1, Len(vectors) - 1)
          [] behaviour = "long" -> Append(vectors, Vector(<<>>))

_get_embedding_metadata ==
    [embedding_model_id |-> "model_id",
     embedding_size |-> "embedding_size",
     max_input_length |-> "max_input_length"]

_create_embedded_query(doc, embedding) ==
    [id |-> doc.id,
     expert_id |-> doc.expert_id,
     content |-> doc.content,
     embedding |-> embedding,
     metadata |-> _get_embedding_metadata]

_create_embedded_paper(doc, embedding) ==
    [id |-> doc.id,
     content |-> doc.content,
     embedding |-> embedding,
     document_id |-> doc.document_id,
     expert_id |-> doc.expert_id,
     metadata |-> _get_embedding_metadata]

\* embedding_inputs = [d.content for d in doc]
embedding_inputs_reversed(doc) == [i \in 1..Len(doc) |-> doc[Len(doc) + 1 - i].content]
embedding_inputs(doc) == [i \in 1..Len(doc) |-> doc[i].content]

\* zip(doc, embeddings, strict=True): the pairs in order; at the end of the
\* shorter argument a ValueError when the other one has items left.
zip_shortest(doc, embeddings) ==
    [exc |-> "-", n |-> Min(Len(doc), Len(embeddings))]
zip_strict(doc, embeddings) ==
    [exc |-> IF Len(doc) = Len(embeddings) THEN "-" ELSE "ValueError",
     n |-> Min(Len(doc), Len(embeddings))]

\* if not is_list: embedded_models = embedded_models[0]
unwrap_never(is_list, embedded_models) == PyList(embedded_models)
unwrap(is_list, embedded_models) ==
    IF ~is_list THEN embedded_models[1] ELSE PyList(embedded_models)

\* DocumentEmbedder.embed(doc): the value returned or the exception raised,
\* and the lists of texts the embedding model was invoked with.
embed(doc, behaviour) ==
    LET is_list == isinstance_list(doc)
        doc_list == IF is_list THEN doc.list ELSE <<doc>>
    IN  IF Len(doc_list) = 0
        THEN [exc |-> "-", ret |-> PyList(<<>>), model_calls |-> <<>>]
        ELSE
        LET inputs == embedding_inputs(doc_list)
            embeddings == EmbeddingModel(inputs, behaviour)
            queries == get_category(doc_list[1]) = "queries"
            zipped == zip_strict(doc_list, embeddings)
            \* _create_embedded_paper reads doc.document_id
            unreadable == {i \in 1..zipped.n :
                              ~queries /\ ~hasattr(doc_list[i], "document_id")}
            embedded_models ==
                [i \in 1..zipped.n |->
                    IF queries THEN _create_embedded_query(doc_list[i], embeddings[i])
                    ELSE _create_embedded_paper(doc_list[i], embeddings[i])]
        IN  IF unreadable # {}
            THEN [exc |-> "AttributeError", ret |-> PyList(<<>>),
                  model_calls |-> <<inputs>>]
            ELSE IF zipped.exc # "-"
            THEN [exc |-> zipped.exc, ret |-> PyList(<<>>),
                  model_calls |-> <<inputs>>]
            ELSE [exc |-> "-", ret |-> unwrap(is_list, embedded_models),
                  model_calls |-> <<inputs>>]

\* The records handed to embed: queries and paper chunks with short texts
EmbedTexts == {Text(1, 1), Text(2, 2)}
Queries == [id : DocIds, content : EmbedTexts, expert_id : ExpertIds]
PaperChunks ==
    [id : DocIds, content : EmbedTexts, document_id : DocIds, expert_id : ExpertIds,
     metadata : {[chunk_size |-> CHUNK_SIZE, chunk_overlap |-> CHUNK_OVERLAP]}]
EmbedRecords == Queries \cup PaperChunks
EmbedArgs ==
    EmbedRecords \cup {PyList(l) : l \in UNION {[1..n -> EmbedRecords] : n \in 0..MaxBatch}}

NoEmbed ==
    [called |-> FALSE, doc |-> PyList(<<>>), behaviour |-> "aligned",
     exc |-> "-", ret |-> PyList(<<>>), model_calls |-> <<>>]

EmbedInit == emb_call = NoEmbed

EmbedCall ==
    /\ ~emb_call.called
    /\ \E doc \in EmbedArgs, behaviour \in ModelBehaviours :
        LET r == embed(doc, behaviour)
        IN  emb_call' = [called |-> TRUE, doc |-> doc, behaviour |-> behaviour,
                         exc |-> r.exc, ret |-> r.ret, model_calls |-> r.model_calls]
    /\ UNCHANGED <<ocrVars, crawlVars, concVars, chunkVars, metaVars, ragVars, fetchVars,
                   cleanVars, restVars>>

(***************************************************************************)
(* The statistics of chunk_and_embed: _add_chunks_metadata and             *)
(* _add_embeddings_metadata                                                *)
(***************************************************************************)
MaxFolded == 3       \* most records folded into one accumulator

\* A Python set is the record [set |-> its members]; a dict is the function
\* from its keys to its values.
PySet(members) == [set |-> members]
EmptyDict == [k \in {} |-> 0]
\* str(uuid): the text form of an id
str(id) == ToString(id)

\* set(a_list)
set_emptied(x) == PySet({})
set(x) == PySet({x.list[i] : i \in DOMAIN x.list})

\* list(a_set): the members, each once, in the set's iteration order, which
\* the language leaves open: `order` lists all keys in the order this set
\* iterates. list(a_list) is a copy of the list.
list(x, order) ==
    IF isinstance_list(x) THEN x
    ELSE PyList(SelectSeq(order, LAMBDA k : k \in x.set))

\* The iteration orders: one per owner key, each a permutation of the
\* document keys.
DocKeys == {str(d) : d \in DocIds}
ExpertKeys == {str(e) : e \in ExpertIds}
Orders ==
    {o \in [1..Cardinality(DocKeys) -> DocKeys] :
        \A i, j \in DOMAIN o : i # j => o[i] # o[j]}
Iterations == [ExpertKeys -> Orders]

\* the round leaving the category total as it was
add_chunk_total_kept(acc, ch) ==
    LET category == get_category(ch)
        md == IF category \in DOMAIN acc THEN acc
              ELSE acc @@
                   (category :> [documents |-> EmptyDict, experts |-> EmptyDict,
                                 num_chunks |-> 0])
        doc_id == str(ch.document_id)
        documents0 == md[category].documents
        documents1 == IF doc_id \in DOMAIN documents0 THEN documents0
                      ELSE documents0 @@
                           (doc_id :> [num_chunks |-> 0, metadata |-> ch.metadata])
        documents2 == [documents1 EXCEPT ![doc_id].num_chunks = @ + 1]
        expert_id == str(ch.expert_id)
        experts0 == md[category].experts
        experts1 == IF expert_id \in DOMAIN experts0 THEN experts0
                    ELSE experts0 @@
                         (expert_id :> [num_chunks |-> 0, documents |-> PySet({})])
        experts2 == [experts1 EXCEPT ![expert_id].num_chunks = @ + 1]
        experts3 == IF isinstance_list(experts2[expert_id].documents)
                    THEN [experts2 EXCEPT ![expert_id].documents = set(@)]
                    ELSE experts2
        experts4 == [experts3 EXCEPT
                        ![expert_id].documents = PySet(@.set \cup {doc_id})]
    IN  [md EXCEPT ![category] =
            [documents |-> documents2, experts |-> experts4,
             num_chunks |-> md[category].num_chunks]]

\* One round of the loop of _add_chunks_metadata (lines 38-63)
add_chunk(acc, ch) ==
    LET category == get_category(ch)
        md == IF category \in DOMAIN acc THEN acc
              ELSE acc @@
                   (category :> [documents |-> EmptyDict, experts |-> EmptyDict,
                                 num_chunks |-> 0])
        doc_id == str(ch.document_id)
        documents0 == md[category].documents
        documents1 == IF doc_id \in DOMAIN documents0 THEN documents0
                      ELSE documents0 @@
                           (doc_id :> [num_chunks |-> 0, metadata |-> ch.metadata])
        documents2 == [documents1 EXCEPT ![doc_id].num_chunks = @ + 1]
        expert_id == str(ch.expert_id)
        experts0 == md[category].experts
        experts1 == IF expert_id \in DOMAIN experts0 THEN experts0
                    ELSE experts0 @@
                         (expert_id :> [num_chunks |-> 0, documents |-> PySet({})])
        experts2 == [experts1 EXCEPT ![expert_id].num_chunks = @ + 1]
        experts3 == IF isinstance_list(experts2[expert_id].documents)
                    THEN [experts2 EXCEPT ![expert_id].documents = set(@)]
                    ELSE experts2
        experts4 == [experts3 EXCEPT
                        ![expert_id].documents = PySet(@.set \cup {doc_id})]
    IN  [md EXCEPT ![category] =
            [documents |-> documents2, experts |-> experts4,
             num_chunks |-> md[category].num_chunks + 1]]

\* for chunk in chunks: ... (lines 37-63)
RECURSIVE merge_chunks(_, _)
merge_chunks(chunks, acc) ==
    IF chunks = <<>> THEN acc
    ELSE merge_chunks(Tail(chunks), add_chunk(acc, Head(chunks)))

\* The closing loop of _add_chunks_metadata (lines 66-68): every owner's
\* documents becomes list(...) of what it was
chunks_kept_as_sets(acc, iteration) == acc
chunks_to_lists(acc, iteration) ==
    [category \in DOMAIN acc |->
        [acc[category] EXCEPT
            !.experts = [e \in DOMAIN @ |->
                            [@[e] EXCEPT !.documents = list(@, iteration[e])]]]]

_add_chunks_metadata(chunks, acc, iteration) ==
    chunks_to_lists(merge_chunks(chunks, acc), iteration)

\* One round of the loop of _add_embeddings_metadata (lines 76-108)
add_embedded_chunk(acc, ch) ==
    LET category == get_category(ch)
        md == IF category \in DOMAIN acc THEN acc
              ELSE acc @@
                   (category :>
                        [documents |-> EmptyDict, experts |-> EmptyDict,
                         num_embedded_chunks |-> 0,
                         embedding_stats |->
                            [dimension |-> IF ch.embedding # <<>>
                                           THEN Len(ch.embedding) ELSE 0]])
        doc_id == str(ch.document_id)
        documents0 == md[category].documents
        documents1 == IF doc_id \in DOMAIN documents0 THEN documents0
                      ELSE documents0 @@
                           (doc_id :> [num_embedded_chunks |-> 0,
                                       metadata |-> ch.metadata])
        documents2 == [documents1 EXCEPT ![doc_id].num_embedded_chunks = @ + 1]
        expert_id == str(ch.expert_id)
        experts0 == md[category].experts
        experts1 == IF expert_id \in DOMAIN experts0 THEN experts0
                    ELSE experts0 @@
                         (expert_id :> [num_embedded_chunks |-> 0,
                                        documents |-> PySet({})])
        experts2 == [experts1 EXCEPT ![expert_id].num_embedded_chunks = @ + 1]
        experts3 == IF isinstance_list(experts2[expert_id].documents)
                    THEN [experts2 EXCEPT ![expert_id].documents = set(@)]
                    ELSE experts2
        experts4 == [experts3 EXCEPT
                        ![expert_id].documents = PySet(@.set \cup {doc_id})]
    IN  [md EXCEPT ![category] =
            [documents |-> documents2, experts |-> experts4,
             num_embedded_chunks |-> md[category].num_embedded_chunks + 1,
             embedding_stats |-> md[category].embedding_stats]]

\* for chunk in embedded_chunks: ... (lines 75-108)
RECURSIVE merge_embedded_chunks(_, _)
merge_embedded_chunks(embedded, acc) ==
    IF embedded = <<>> THEN acc
    ELSE merge_embedded_chunks(Tail(embedded),
                               add_embedded_chunk(acc, Head(embedded)))

\* The closing loop of _add_embeddings_metadata (lines 111-114): the sets
\* become lists
embeddings_to_lists(acc, iteration) ==
    [category \in DOMAIN acc |->
        [acc[category] EXCEPT
            !.experts = [e \in DOMAIN @ |->
                            IF isinstance_list(@[e].documents) THEN @[e]
                            ELSE [@[e] EXCEPT
                                    !.documents = list(@, iteration[e])]]]]

_add_embeddings_metadata(embedded, acc, iteration) ==
    embeddings_to_lists(merge_embedded_chunks(embedded, acc), iteration)

\* The records folded: paper chunks of the documents and owners at hand, and
\* the embedded chunks made from them
MetaChunks == {c \in PaperChunks : c.id = 1 /\ c.content = Text(1, 1)}
MetaEmbeddedChunks == {_create_embedded_paper(c, Vector(c.content)) : c \in MetaChunks}
MetaLists(records, n) == UNION {[1..k -> records] : k \in 0..n}

MetaIdle ==
    /\ meta_fn = "_add_chunks_metadata"
    /\ meta_acc = EmptyDict
    /\ folded = <<>>
    /\ meta_calls = 0

MetaInit ==
    /\ meta_fn \in {"_add_chunks_metadata", "_add_embeddings_metadata"}
    /\ meta_acc = EmptyDict
    /\ folded = <<>>
    /\ meta_calls = 0

\* metadata = _add_chunks_metadata(chunks, metadata)
AddChunksMetadata ==
    /\ meta_fn = "_add_chunks_metadata"
    /\ meta_calls < MaxFolded
    /\ \E chunks \in MetaLists(MetaChunks, MaxFolded - Len(folded)),
          iteration \in Iterations :
        /\ meta_acc' = _add_chunks_metadata(chunks, meta_acc, iteration)
        /\ folded' = folded \o chunks
    /\ meta_calls' = meta_calls + 1
    /\ UNCHANGED <<meta_fn, ocrVars, crawlVars, concVars, chunkVars, embVars, ragVars,
                   fetchVars, cleanVars, restVars>>

\* metadata = _add_embeddings_metadata(embedded_chunks, metadata)
AddEmbeddingsMetadata ==
    /\ meta_fn = "_add_embeddings_metadata"
    /\ meta_calls < MaxFolded
    /\ \E embedded \in MetaLists(MetaEmbeddedChunks, MaxFolded - Len(folded)),
          iteration \in Iterations :
        /\ meta_acc' = _add_embeddings_metadata(embedded, meta_acc, iteration)
        /\ folded' = folded \o embedded
    /\ meta_calls' = meta_calls + 1
    /\ UNCHANGED <<meta_fn, ocrVars, crawlVars, concVars, chunkVars, embVars, ragVars,
                   fetchVars, cleanVars, restVars>>

(***************************************************************************)
(* chunk_and_embed                                                         *)
(***************************************************************************)
MaxBatches == 2      \* most batches the chunks of one document are split into

\* The batch size chunk_and_embed hands to utils.misc.batch
BATCH_SIZE == 10

\* utils.misc.batch(list_, size): the consecutive slices of at most `size`
\* items, in order
batch(list_, size) ==
    [b \in 1..((Len(list_) + size - 1) \div size) |->
        SubSeq(list_, (b - 1) * size + 1, Min(Len(list_), b * size))]

\* embedded_chunks.extend(batched_embedded_chunks)
extend_front(l, items) == items \o l
extend(l, items) == l \o items

\* Does some owner's documents hold a set?
HasSets(acc) ==
    \E category \in DOMAIN acc : \E e \in DOMAIN acc[category].experts :
        ~isinstance_list(acc[category].experts[e].documents)

\* The cleaned documents of a run: texts of no window, one window, and of
\* whole batches of windows with and without one window more
RagLengths ==
    {0, 1} \cup {k * BATCH_SIZE * Stride + r : k \in 1..(MaxBatches - 1), r \in {0, 1}}
RagDocs == [id : DocIds, expert_id : ExpertIds,
            content : {Text(MaxPeriod, n) : n \in RagLengths}]

RagIdle ==
    /\ cleaned_documents = <<>>
    /\ rag_pc = "idle"
    /\ rag_idx = 0
    /\ rag_chunks = <<>>
    /\ rag_batch = 0
    /\ embedded_chunks = <<>>
    /\ rag_metadata = EmptyDict
    /\ embed_calls = <<>>
    /\ to_lists = [chunking |-> 0, embedding |-> 0]

\* lines 14-16
RagInit ==
    /\ cleaned_documents \in UNION {[1..n -> RagDocs] : n \in {0} \cup Slots}
    \* ids are interchangeable: the first document is document 1 of owner 1
    /\ cleaned_documents # <<>>
       => cleaned_documents[1].id = 1 /\ cleaned_documents[1].expert_id = 1
    /\ rag_pc = "loop"
    /\ rag_idx = 0
    /\ rag_chunks = <<>>
    /\ rag_batch = 0
    /\ embedded_chunks = <<>>
    /\ rag_metadata = [chunking |-> EmptyDict, embedding |-> EmptyDict,
                       num_documents |-> Len(cleaned_documents)]
    /\ embed_calls = <<>>
    /\ to_lists = [chunking |-> 0, embedding |-> 0]

\* lines 17-19: the next document is chunked and its chunks are counted
RagChunk ==
    /\ rag_pc = "loop"
    /\ rag_idx < Len(cleaned_documents)
    /\ LET document == cleaned_documents[rag_idx + 1]
           chunks == chunk(document)
       IN  /\ rag_chunks' = chunks
           /\ \E iteration \in Iterations :
                rag_metadata' =
                    [rag_metadata EXCEPT
                        !.chunking = _add_chunks_metadata(chunks, @, iteration)]
           /\ to_lists' =
                [to_lists EXCEPT
                    !.chunking = IF HasSets(merge_chunks(chunks, rag_metadata.chunking))
                                 THEN @ + 1 ELSE @]
           /\ rag_pc' = IF batch(chunks, BATCH_SIZE) = <<>> THEN "loop" ELSE "batches"
    /\ rag_idx' = rag_idx + 1
    /\ rag_batch' = 0
    /\ UNCHANGED <<cleaned_documents, embedded_chunks, embed_calls,
                   ocrVars, crawlVars, concVars, chunkVars, embVars, metaVars, fetchVars,
                   cleanVars, restVars>>

\* lines 21-23: the next batch of the document's chunks is embedded
RagEmbed ==
    /\ rag_pc = "batches"
    /\ LET batches == batch(rag_chunks, BATCH_SIZE)
           batched_chunks == batches[rag_batch + 1]
           r == embed(PyList(batched_chunks), "aligned")
       IN  /\ embed_calls' = Append(embed_calls,
                                    [i \in DOMAIN batched_chunks |-> batched_chunks[i].id])
           /\ embedded_chunks' = extend(embedded_chunks, r.ret.list)
           /\ rag_pc' = IF rag_batch + 1 = Len(batches) THEN "loop" ELSE "batches"
    /\ rag_batch' = rag_batch + 1
    /\ UNCHANGED <<cleaned_documents, rag_idx, rag_chunks, rag_metadata, to_lists,
                   ocrVars, crawlVars, concVars, chunkVars, embVars, metaVars, fetchVars,
                   cleanVars, restVars>>

\* lines 25-32: the embedded chunks are counted, the metadata is reported and
\* the embedded chunks are returned
RagReport ==
    /\ rag_pc = "loop"
    /\ rag_idx = Len(cleaned_documents)
    /\ \E iteration \in Iterations :
        rag_metadata' =
            [num_chunks |-> Len(embedded_chunks),
             num_embedded_chunks |-> Len(embedded_chunks)]
            @@ [rag_metadata EXCEPT
                    !.embedding = _add_embeddings_metadata(embedded_chunks, @, iteration)]
    /\ to_lists' =
        [to_lists EXCEPT
            !.embedding =
                IF HasSets(merge_embedded_chunks(embedded_chunks, rag_metadata.embedding))
                THEN @ + 1 ELSE @]
    /\ rag_pc' = "returned"
    /\ UNCHANGED <<cleaned_documents, rag_idx, rag_chunks, rag_batch, embedded_chunks,
                   embed_calls, ocrVars, crawlVars, concVars, chunkVars, embVars, metaVars,
                   fetchVars, cleanVars, restVars>>

(***************************************************************************)
(* fetch_all_data: one worker thread per submitted query, collected by the *)
(* calling thread as they complete                                         *)
(***************************************************************************)
MaxQueries == 2      \* number of queries submitted to the executor
MaxPages == 2        \* most pages one collection has

\* The names in future_to_query. The source submits the one query "papers";
\* the loop over as_completed is the same for any number of entries.
QueryNames == {"papers"} \cup {ToString(q) : q \in 2..MaxQueries}

\* What one bulk_find call can do: hand back a page and the offset of the
\* next, hand back the last page (next_offset None), hand back no document at
\* all, or raise
BulkFind == {"page", "last page", "nothing", "UnexpectedResponse", "Exception"}

\* An offset is <<>> (None, no offset) or <<n>>, the position of the point a
\* page starts at
NoOffset == <<>>

\* bulk_find(limit=1, offset=...) of the vector store: the points of the
\* collection are numbered from 1, a page holds the one point the offset
\* names (the first point when no offset is given), and next_offset names the
\* point after it, or is None on the last page
bulk_find(offset, outcome) ==
    LET start == IF offset = NoOffset THEN 1 ELSE offset[1]
    IN  CASE outcome = "page" ->
                [documents |-> <<start>>, next_offset |-> <<start + 1>>]
          [] outcome = "last page" ->
                [documents |-> <<start>>, next_offset |-> NoOffset]
          [] outcome = "nothing" ->
                [documents |-> <<>>, next_offset |-> NoOffset]

\* requested: the offsets of the bulk_find calls made so far, in order;
\* answered: what the store returned to the calls that did not raise
NewWorker == [pc |-> "first", cleaned_documents |-> <<>>, exc |-> "-",
              next_offset |-> NoOffset, requested |-> <<>>, answered |-> <<>>]
Completed(w) == w.pc \in {"returned", "raised"}

\* __fetch, lines 49-52: the first bulk_find call
fetch_first(w, outcome) ==
    LET requested == Append(w.requested, NoOffset)
    IN  CASE outcome = "UnexpectedResponse" ->
                [w EXCEPT !.pc = "returned", !.requested = requested]
          [] outcome = "Exception" ->
                [w EXCEPT !.pc = "raised", !.exc = outcome, !.requested = requested]
          [] OTHER ->
                LET page == bulk_find(NoOffset, outcome)
                IN  [pc |-> IF page.next_offset # NoOffset THEN "paging" ELSE "returned",
                     cleaned_documents |-> page.documents,
                     exc |-> "-",
                     next_offset |-> page.next_offset,
                     requested |-> requested,
                     answered |-> Append(w.answered, page)]

\* the paging loop asking for the first page again
fetch_next_restarted(w, outcome) ==
    LET requested == Append(w.requested, NoOffset)
    IN  CASE outcome \in {"UnexpectedResponse", "Exception"} ->
                [w EXCEPT !.pc = "raised", !.exc = outcome, !.requested = requested]
          [] OTHER ->
                LET page == bulk_find(NoOffset, outcome)
                IN  [pc |-> IF page.next_offset # NoOffset THEN "paging" ELSE "returned",
                     cleaned_documents |-> w.cleaned_documents \o page.documents,
                     exc |-> "-",
                     next_offset |-> page.next_offset,
                     requested |-> requested,
                     answered |-> Append(w.answered, page)]

\* __fetch, lines 54-58: one round of the paging loop
fetch_next(w, outcome) ==
    LET requested == Append(w.requested, w.next_offset)
    IN  CASE outcome \in {"UnexpectedResponse", "Exception"} ->
                [w EXCEPT !.pc = "raised", !.exc = outcome, !.requested = requested]
          [] OTHER ->
                LET page == bulk_find(w.next_offset, outcome)
                IN  [pc |-> IF page.next_offset # NoOffset THEN "paging" ELSE "returned",
                     cleaned_documents |-> w.cleaned_documents \o page.documents,
                     exc |-> "-",
                     next_offset |-> page.next_offset,
                     requested |-> requested,
                     answered |-> Append(w.answered, page)]

\* lines 34-39: future.result(), or the empty list when it raises
result_unguarded(w) == w.cleaned_documents
result_or_empty(w) == IF w.pc = "raised" THEN <<>> ELSE w.cleaned_documents

FetchIdle ==
    /\ future_to_query = {}
    /\ futures = EmptyDict
    /\ fetch_results = EmptyDict
    /\ fetch_pc = "idle"

\* lines 24-31: the queries are submitted
FetchInit ==
    /\ future_to_query \in {qs \in SUBSET QueryNames : "papers" \in qs}
    /\ futures = [q \in future_to_query |-> NewWorker]
    /\ fetch_results = EmptyDict
    /\ fetch_pc = "collecting"

\* a worker's first bulk_find call
WorkerFirst(q) ==
    /\ futures[q].pc = "first"
    /\ \E outcome \in BulkFind :
        futures' = [futures EXCEPT ![q] = fetch_first(@, outcome)]
    /\ UNCHANGED <<future_to_query, fetch_results, fetch_pc,
                   ocrVars, crawlVars, concVars, chunkVars, embVars, metaVars, ragVars,
                   cleanVars, restVars>>

\* a worker's next bulk_find call
WorkerNext(q) ==
    /\ futures[q].pc = "paging"
    /\ \E outcome \in BulkFind :
        /\ outcome = "page" => Len(futures[q].answered) + 1 < MaxPages
        /\ futures' = [futures EXCEPT ![q] = fetch_next(@, outcome)]
    /\ UNCHANGED <<future_to_query, fetch_results, fetch_pc,
                   ocrVars, crawlVars, concVars, chunkVars, embVars, metaVars, ragVars,
                   cleanVars, restVars>>

\* lines 32-39: as_completed yields a future that is done
Collect(q) ==
    /\ fetch_pc = "collecting"
    /\ q \notin DOMAIN fetch_results
    /\ Completed(futures[q])
    /\ fetch_results' = (q :> result_or_empty(futures[q])) @@ fetch_results
    /\ UNCHANGED <<future_to_query, futures, fetch_pc,
                   ocrVars, crawlVars, concVars, chunkVars, embVars, metaVars, ragVars,
                   cleanVars, restVars>>

\* line 41: every future was yielded, the executor is shut down, results is
\* returned
FetchReturn ==
    /\ fetch_pc = "collecting"
    /\ DOMAIN fetch_results = future_to_query
    /\ fetch_pc' = "returned"
    /\ UNCHANGED <<future_to_query, futures, fetch_results,
                   ocrVars, crawlVars, concVars, chunkVars, embVars, metaVars, ragVars,
                   cleanVars, restVars>>

(***************************************************************************)
(* clean_text                                                              *)
(***************************************************************************)
MaxText == 3         \* longest text drawn from the alphabet below

\* A text is the sequence of its characters. The classes of the two patterns:
\* \w is a letter, a digit or the underscore, \s is a whitespace character.
Letters ==
    {"a", "b", "c", "d", "e", "f", "g", "h", "i", "j", "k", "l", "m", "n", "o", "p",
     "q", "r", "s", "t", "u", "v", "w", "x", "y", "z",
     "A", "B", "C", "D", "E", "F", "G", "H", "I", "J", "K", "L", "M", "N", "O", "P",
     "Q", "R", "S", "T", "U", "V", "W", "X", "Y", "Z"}
Digits == {"0", "1", "2", "3", "4", "5", "6", "7", "8", "9"}
IsWord(c) == c \in Letters \cup Digits \cup {"_"}
IsSpace(c) == c \in {" ", "\t", "\n", "\r", "\f"}
\* [^\w\s.,!?] matches the characters that are none of these
IsKept(c) == IsWord(c) \/ IsSpace(c) \/ c \in {".", ",", "!", "?"}

\* re.sub(r"[^\w\s.,!?]", " ", text)
sub_disallowed_removed(text) == SelectSeq(text, IsKept)
sub_disallowed(text) == [i \in DOMAIN text |-> IF IsKept(text[i]) THEN text[i] ELSE " "]

\* re.sub(r"\s+", " ", text): every maximal run of whitespace becomes one space
RECURSIVE lstrip(_)
lstrip(text) ==
    IF text # <<>> /\ IsSpace(Head(text)) THEN lstrip(Tail(text)) ELSE text
RECURSIVE sub_whitespace(_)
sub_whitespace(text) ==
    IF text = <<>> THEN <<>>
    ELSE IF IsSpace(Head(text)) THEN <<" ">> \o sub_whitespace(lstrip(text))
    ELSE <<Head(text)>> \o sub_whitespace(Tail(text))

\* text.strip()
RECURSIVE rstrip(_)
rstrip(text) ==
    IF text # <<>> /\ IsSpace(text[Len(text)])
    THEN rstrip(SubSeq(text, 1, Len(text) - 1)) ELSE text
strip(text) == rstrip(lstrip(text))

clean_text(text) == strip(sub_whitespace(sub_disallowed(text)))

\* The texts cleaned: all short texts over a few characters of each class,
\* and the text Hello,<TAB>World!!<NEWLINE><NEWLINE><SPACE><SPACE>foo_bar
CleanAlphabet == {"a", "_", ",", "#", " ", "\t", "\n"}
HelloWorld ==
    <<"H", "e", "l", "l", "o", ",", "\t", "W", "o", "r", "l", "d", "!", "!",
      "\n", "\n", " ", " ", "f", "o", "o", "_", "b", "a", "r">>
CleanTexts == {HelloWorld} \cup UNION {[1..n -> CleanAlphabet] : n \in 0..MaxText}

NoClean == [called |-> FALSE, text |-> <<>>, ret |-> <<>>]

CleanInit == clean_call = NoClean

CleanText ==
    /\ ~clean_call.called
    /\ \E text \in CleanTexts :
        clean_call' = [called |-> TRUE, text |-> text, ret |-> clean_text(text)]
    /\ UNCHANGED <<ocrVars, crawlVars, concVars, chunkVars, embVars, metaVars, ragVars,
                   fetchVars, restVars>>

(***************************************************************************)
(* Construction of the clients: ArxivClient.__new__ and OCRClient.__init__ *)
(***************************************************************************)
MaxConstructions == 3    \* most constructions of either class

\* How `tesseract --version` can end when subprocess.run starts it: exit
\* status zero, a non-zero exit status (check=True raises
\* CalledProcessError), or no such executable (FileNotFoundError)
Probe == {"exit 0", "exit non-zero", "not installed"}

\* OCRClient._check_tesseract_installed
_check_tesseract_installed(probe) ==
    CASE probe = "exit 0" -> [exc |-> "-", ret |-> TRUE]
      [] probe = "exit non-zero" -> [exc |-> "-", ret |-> FALSE]
      [] probe = "not installed" -> [exc |-> "FileNotFoundError", ret |-> FALSE]

\* OCRClient.__init__: the client built, or the exception that left it
OCRClient(probe) ==
    LET check == _check_tesseract_installed(probe)
    IN  IF check.exc # "-"
        THEN [exc |-> check.exc, probe |-> probe]
        ELSE [exc |-> "-", probe |-> probe,
              ocr_backends |-> InitBackends(check.ret),
              pipeline_options |-> {}]

\* requests.Session(): the n-th session object of the process
Session(n) == [kind |-> "Session", n |-> n]

\* ArxivClient.__new__: the new value of cls._instance, and what the call
\* returned or raised. An object is the function from its attribute names to
\* their values.
ArxivClient(instance, probe) ==
    IF instance = None
    THEN LET created == EmptyDict
             with_session == ("_session" :> Session(sessions + 1)) @@ created
             ocr_client == OCRClient(probe)
         IN  IF ocr_client.exc # "-"
             THEN [_instance |-> with_session, exc |-> ocr_client.exc,
                   ret |-> None, new |-> TRUE]
             ELSE LET with_ocr == ("_ocr" :> ocr_client) @@ with_session
                  IN  [_instance |-> with_ocr, exc |-> "-", ret |-> with_ocr,
                       new |-> TRUE]
    ELSE [_instance |-> instance, exc |-> "-", ret |-> instance, new |-> FALSE]

ClientIdle ==
    /\ _instance = None
    /\ sessions = 0
    /\ probes = 0
    /\ constructions = <<>>
    /\ ocr_clients = <<>>

\* the process has started: no client has been constructed yet
ClientInit == ClientIdle

\* one ArxivClient() call
NewArxivClient ==
    /\ Len(constructions) < MaxConstructions
    /\ \E probe \in Probe :
        LET call == ArxivClient(_instance, probe)
        IN  /\ _instance' = call._instance
            /\ sessions' = IF call.new THEN sessions + 1 ELSE sessions
            /\ probes' = IF call.new THEN probes + 1 ELSE probes
            /\ constructions' = Append(constructions, [exc |-> call.exc, ret |-> call.ret])
    /\ UNCHANGED <<ocr_clients, ocrVars, crawlVars, concVars, chunkVars, embVars, metaVars,
                   ragVars, fetchVars, cleanVars, stepVars, typedVars>>

\* one OCRClient() call
NewOCRClient ==
    /\ Len(ocr_clients) < MaxConstructions
    /\ \E probe \in Probe :
        ocr_clients' = Append(ocr_clients, OCRClient(probe))
    /\ UNCHANGED <<_instance, sessions, probes, constructions,
                   ocrVars, crawlVars, concVars, chunkVars, embVars, metaVars,
                   ragVars, fetchVars, cleanVars, stepVars, typedVars>>

(***************************************************************************)
(* The steps query_data_warehouse and clean_documents                      *)
(***************************************************************************)
MaxPapers == 2       \* most papers in the warehouse
MaxContent == 2      \* longest content of a paper, in characters
MaxDomains == 2      \* longest list of domains handed to query_data_warehouse

Domains == {"machine_learning", "nlp"}

\* ExpertDocument and PaperDocument as stored. A paper's expert_id is a
\* reference: reading it gives the ExpertDocument it points to.
ExpertDocument(id, domain) == [id |-> id, domain |-> domain]
PaperDocument(id, content, expert) == [id |-> id, content |-> content, expert_id |-> expert]

\* ExpertDocument.get_or_create: the expert of the domain, saved first when
\* there is none; the new expert's id is one no other expert has
get_or_create(experts, domain) ==
    IF \E i \in DOMAIN experts : experts[i].domain = domain
    THEN [experts |-> experts,
          expert |-> experts[CHOOSE i \in DOMAIN experts : experts[i].domain = domain]]
    ELSE LET expert == ExpertDocument(Len(experts) + 1, domain)
         IN  [experts |-> Append(experts, expert), expert |-> expert]

\* PaperDocument.bulk_find(query={"expert_id": id}): the papers of that owner,
\* in the order of the collection
paper_bulk_find(store, expert_id) ==
    SelectSeq(store, LAMBDA doc : doc.expert_id.id = expert_id)

\* query_data_warehouse._get_metadata. The entry for the collection also
\* lists the text forms of the owners, which is left out here.
_get_metadata_raw(documents) ==
    IF documents # <<>>
    THEN [num_documents |-> Len(documents),
          papers |-> [num_documents |-> Len(documents)]]
    ELSE [num_documents |-> Len(documents)]

\* query_data_warehouse, lines 12-21: the loop over the domains
RECURSIVE query_domains(_, _)
query_domains(wh, domains) ==
    IF domains = <<>>
    THEN [warehouse |-> wh, documents |-> <<>>]
    ELSE LET before == query_domains(wh, SubSeq(domains, 1, Len(domains) - 1))
             got == get_or_create(before.warehouse.experts, domains[Len(domains)])
             found == paper_bulk_find(before.warehouse.papers, got.expert.id)
         IN  [warehouse |-> [before.warehouse EXCEPT !.experts = got.experts],
              documents |-> extend(before.documents, found)]

\* query_data_warehouse
query_data_warehouse(wh, domains) ==
    LET run == query_domains(wh, domains)
    IN  [warehouse |-> run.warehouse, exc |-> "-", ret |-> run.documents,
         metadata |-> _get_metadata_raw(run.documents)]

\* iterating a str gives its characters, each a str of length one
characters(text) == [i \in DOMAIN text |-> <<text[i]>>]

\* sep.join(strings)
RECURSIVE join(_, _)
join(sep, strings) ==
    IF strings = <<>> THEN <<>>
    ELSE IF Len(strings) = 1 THEN strings[1]
    ELSE strings[1] \o sep \o join(sep, Tail(strings))

\* " #### "
Separator == <<" ", "#", "#", "#", "#", " ">>

\* DocumentCleaner.clean: doc.content is the StringField of the paper, a str
clean(doc) ==
    [id |-> doc.id,
     content |-> clean_text(join(Separator, characters(doc.content))),
     expert_id |-> doc.expert_id.id]

\* clean_documents._get_metadata: cleaned_documents[0] of an empty list is an
\* IndexError
_get_metadata_cleaned(cleaned) ==
    IF cleaned = <<>>
    THEN [exc |-> "IndexError", ret |-> EmptyDict]
    ELSE [exc |-> "-",
          ret |-> [num_documents |-> Len(cleaned), expert |-> str(cleaned[1].expert_id)]]

\* clean_documents
clean_documents(documents) ==
    LET cleaned == [i \in DOMAIN documents |-> clean(documents[i])]
        reported == _get_metadata_cleaned(cleaned)
    IN  IF reported.exc # "-"
        THEN [exc |-> reported.exc, ret |-> <<>>, metadata |-> EmptyDict]
        ELSE [exc |-> "-", ret |-> cleaned, metadata |-> reported.ret]

\* The warehouses: experts with ids in the order they were saved, papers with
\* ids in the order they were saved, each owned by one of the experts
PaperContents == {SubSeq(HelloWorld, 1, n) : n \in 0..MaxContent}
ExpertLists ==
    {<<>>} \cup {<<ExpertDocument(1, d)>> : d \in Domains}
    \cup {pair \in {<<ExpertDocument(1, d), ExpertDocument(2, e)>> :
                        d \in Domains, e \in Domains} : pair[1].domain # pair[2].domain}
PaperLists(experts) ==
    UNION {[1..n -> {[content |-> c, expert_id |-> e] :
                        c \in PaperContents,
                        e \in {experts[k] : k \in DOMAIN experts}}] : n \in 0..MaxPapers}
WarehousesOf(experts) ==
    {[experts |-> experts,
      papers |-> [i \in DOMAIN drawn |->
                    PaperDocument(i, drawn[i].content, drawn[i].expert_id)]] :
        drawn \in PaperLists(experts)}
Warehouses == UNION {WarehousesOf(experts) : experts \in ExpertLists}
DomainLists == UNION {[1..n -> Domains] : n \in 0..MaxDomains}

NoStep == [step |-> "-", args |-> <<>>, exc |-> "-", ret |-> <<>>, metadata |-> EmptyDict]

StepIdle ==
    /\ warehouse = [experts |-> <<>>, papers |-> <<>>]
    /\ step_call = NoStep

StepInit ==
    /\ warehouse \in Warehouses
    /\ step_call = NoStep

\* the step query_data_warehouse is run
QueryDataWarehouse ==
    /\ step_call = NoStep
    /\ \E domains \in DomainLists :
        LET call == query_data_warehouse(warehouse, domains)
        IN  /\ warehouse' = call.warehouse
            /\ step_call' = [step |-> "query_data_warehouse", args |-> domains,
                             exc |-> call.exc, ret |-> call.ret,
                             metadata |-> call.metadata]
    /\ UNCHANGED <<ocrVars, crawlVars, concVars, chunkVars, embVars, metaVars, ragVars,
                   fetchVars, cleanVars, clientVars, typedVars>>

\* the step clean_documents is run on the raw documents of some domains
CleanDocuments ==
    /\ step_call = NoStep
    /\ \E domains \in DomainLists :
        LET documents == query_data_warehouse(warehouse, domains).ret
            call == clean_documents(documents)
        IN  step_call' = [step |-> "clean_documents", args |-> documents,
                          exc |-> call.exc, ret |-> call.ret,
                          metadata |-> call.metadata]
    /\ UNCHANGED <<warehouse, ocrVars, crawlVars, concVars, chunkVars, embVars, metaVars,
                   ragVars, fetchVars, cleanVars, clientVars, typedVars>>

(***************************************************************************)
(* The record types the stages declare, and the stages run on records of   *)
(* those types                                                             *)
(***************************************************************************)
\* A record type is the names of its fields: the ones without a default,
\* which the constructor requires, and the ones with a default.
\* VectorBaseDocument gives every type the field id, which has a default.
VectorBaseDocument == [required |-> {}, defaults |-> {"id"}]
Subclass(base, required, defaults) ==
    [required |-> base.required \cup required, defaults |-> base.defaults \cup defaults]

CleanedDocument ==
    Subclass(VectorBaseDocument, {"content", "platform", "author_id", "author_full_name"}, {})
CleanedPaperDocument == Subclass(CleanedDocument, {}, {"image"})
Chunk ==
    Subclass(VectorBaseDocument,
             {"content", "platform", "document_id", "author_id", "author_full_name"},
             {"metadata"})
PaperChunk == Subclass(Chunk, {}, {"image"})
EmbeddedPaperChunk ==
    Subclass(VectorBaseDocument, {"content", "embedding", "document_id", "expert_id"},
             {"metadata"})

Fields(type) == type.required \cup type.defaults

\* type(**kwargs): a ValidationError names the required fields that were not
\* supplied; otherwise the record holds the declared fields, the ones not
\* supplied at their defaults
Default == [kind |-> "default"]
construct(type, kwargs) ==
    IF type.required \ DOMAIN kwargs # {}
    THEN [exc |-> "ValidationError", names |-> type.required \ DOMAIN kwargs]
    ELSE [exc |-> "-", names |-> {},
          ret |-> [f \in Fields(type) |-> IF f \in DOMAIN kwargs THEN kwargs[f] ELSE Default]]

\* reading attributes of an object: an AttributeError names the ones it
\* does not have
AttributeError(obj, names) ==
    [exc |-> "AttributeError", names |-> {n \in names : ~hasattr(obj, n)}]

\* DocumentCleaner.clean on a PaperDocument
typed_clean(doc) ==
    IF \E n \in {"id", "content", "expert_id"} : ~hasattr(doc, n)
    THEN AttributeError(doc, {"id", "content", "expert_id"})
    ELSE construct(CleanedPaperDocument, clean(doc))

\* DocumentChunker.chunk on a CleanedPaperDocument: the first chunk model of
\* the loop, when the text has a window at all
typed_chunk(doc) ==
    LET chunks == chunk_text(doc.content, CHUNK_SIZE, CHUNK_OVERLAP)
    IN  IF chunks = <<>> THEN [exc |-> "-", names |-> {}, ret |-> <<>>]
        ELSE IF \E n \in {"id", "expert_id"} : ~hasattr(doc, n)
        THEN AttributeError(doc, {"id", "expert_id"})
        ELSE construct(PaperChunk, chunk_model(doc, chunks[1]))

\* DocumentEmbedder._create_embedded_paper on a PaperChunk
typed_create_embedded_paper(doc, embedding) ==
    IF \E n \in {"id", "content", "document_id", "expert_id"} : ~hasattr(doc, n)
    THEN AttributeError(doc, {"id", "content", "document_id", "expert_id"})
    ELSE construct(EmbeddedPaperChunk, _create_embedded_paper(doc, embedding))

\* Records of the declared types, every declared field set
Platforms == {"arxiv"}
Names == {"expert"}
CleanedPaperDocuments ==
    {construct(CleanedPaperDocument,
               [id |-> id, content |-> content, platform |-> platform,
                author_id |-> author, author_full_name |-> name]).ret :
        id \in DocIds, content \in {Text(1, 0), Text(2, 2)}, platform \in Platforms,
        author \in ExpertIds, name \in Names}
TypedPaperChunks ==
    {construct(PaperChunk,
               [id |-> id, content |-> Text(2, 2), platform |-> platform,
                document_id |-> document_id,
                author_id |-> author, author_full_name |-> name]).ret :
        id \in DocIds, document_id \in DocIds, platform \in Platforms,
        author \in ExpertIds, name \in Names}
TypedPapers ==
    {PaperDocument(id, content, ExpertDocument(expert, domain)) :
        id \in DocIds, content \in PaperContents, expert \in ExpertIds, domain \in Domains}

Stages == {"clean", "chunk", "embed"}
NotRun == [exc |-> "not run", names |-> {}]

TypedIdle ==
    /\ typed_inputs = EmptyDict
    /\ typed_results = EmptyDict

TypedInit ==
    /\ \E paper \in TypedPapers, cleaned \in CleanedPaperDocuments, ch \in TypedPaperChunks :
        typed_inputs = [clean |-> paper, chunk |-> cleaned, embed |-> ch]
    /\ typed_results = [stage \in Stages |-> NotRun]

\* DocumentCleaner.clean is run
TypedClean ==
    /\ typed_results.clean = NotRun
    /\ typed_results' = [typed_results EXCEPT !.clean = typed_clean(typed_inputs.clean)]
    /\ UNCHANGED <<typed_inputs, ocrVars, crawlVars, concVars, chunkVars, embVars, metaVars,
                   ragVars, fetchVars, cleanVars, clientVars, stepVars>>

\* DocumentChunker.chunk is run
TypedChunk ==
    /\ typed_results.chunk = NotRun
    /\ typed_results' = [typed_results EXCEPT !.chunk = typed_chunk(typed_inputs.chunk)]
    /\ UNCHANGED <<typed_inputs, ocrVars, crawlVars, concVars, chunkVars, embVars, metaVars,
                   ragVars, fetchVars, cleanVars, clientVars, stepVars>>

\* DocumentEmbedder._create_embedded_paper is run
TypedEmbed ==
    /\ typed_results.embed = NotRun
    /\ typed_results' =
        [typed_results EXCEPT
            !.embed = typed_create_embedded_paper(typed_inputs.embed,
                                                  Vector(typed_inputs.embed.content))]
    /\ UNCHANGED <<typed_inputs, ocrVars, crawlVars, concVars, chunkVars, embVars, metaVars,
                   ragVars, fetchVars, cleanVars, clientVars, stepVars>>

RestIdle == ClientIdle /\ StepIdle /\ TypedIdle

(***************************************************************************)
(* The specifications                                                      *)
(***************************************************************************)
CrawlIdle ==
    /\ papers = <<>>
    /\ links = <<>>
    /\ idx = 0
    /\ successful_crawls = 0
    /\ metadata = [k \in {} |-> 0]
    /\ crawl_pc = "idle"
    /\ results = <<>>
    /\ last = NoPaper
    /\ crawled_links = <<>>

ConcIdle ==
    /\ cpc = [p \in Procs |-> "idle"]
    /\ clink = [p \in Procs |-> 1]
    /\ cret = [p \in Procs |-> "-"]
    /\ ccontent = [p \in Procs |-> None]

ChunkIdle ==
    /\ docs = [s \in Slots |-> [id |-> 1, expert_id |-> 1, content |-> <<>>]]
    /\ chunked = [s \in Slots |-> [done |-> FALSE, chunks |-> <<>>]]

LaterIdle == EmbedInit /\ MetaIdle /\ RagIdle /\ FetchIdle /\ CleanInit /\ RestIdle

InitOcr == OcrInit /\ CrawlIdle /\ ConcIdle /\ ChunkIdle /\ LaterIdle
NextOcr == OcrCall
SpecOcr == InitOcr /\ [][NextOcr]_vars

InitCrawl == OcrInit /\ CrawlInit /\ ConcIdle /\ ChunkIdle /\ LaterIdle
NextCrawl == CrawlStep \/ CrawlReturn
SpecCrawl == InitCrawl /\ [][NextCrawl]_vars

InitConc == OcrInit /\ CrawlIdle /\ ConcInit /\ ChunkIdle /\ LaterIdle
NextConc ==
    \E p \in Procs :
        CCheck(p) \/ CFetchMetadata(p) \/ CFetchPdf(p) \/ CProcessPdf(p) \/ CSave(p)
SpecConc == InitConc /\ [][NextConc]_vars

InitChunk ==
    OcrInit /\ tesseract_installed /\ CrawlIdle /\ ConcIdle /\ ChunkInit /\ LaterIdle
NextChunk == \E s \in Slots : ChunkDoc(s)
SpecChunk == InitChunk /\ [][NextChunk]_vars

\* the parts before the embedder, at rest
EarlierIdle == OcrInit /\ tesseract_installed /\ CrawlIdle /\ ConcIdle /\ ChunkIdle

InitEmbed == EarlierIdle /\ EmbedInit /\ MetaIdle /\ RagIdle /\ FetchIdle /\ CleanInit /\ RestIdle
NextEmbed == EmbedCall
SpecEmbed == InitEmbed /\ [][NextEmbed]_vars

InitMeta == EarlierIdle /\ EmbedInit /\ MetaInit /\ RagIdle /\ FetchIdle /\ CleanInit /\ RestIdle
NextMeta == AddChunksMetadata \/ AddEmbeddingsMetadata
SpecMeta == InitMeta /\ [][NextMeta]_vars

InitRag == EarlierIdle /\ EmbedInit /\ MetaIdle /\ RagInit /\ FetchIdle /\ CleanInit /\ RestIdle
NextRag == RagChunk \/ RagEmbed \/ RagReport
SpecRag == InitRag /\ [][NextRag]_vars

InitFetch == EarlierIdle /\ EmbedInit /\ MetaIdle /\ RagIdle /\ FetchInit /\ CleanInit /\ RestIdle
NextFetch ==
    \/ \E q \in future_to_query : WorkerFirst(q)
    \/ \E q \in future_to_query : WorkerNext(q)
    \/ \E q \in future_to_query : Collect(q)
    \/ FetchReturn
SpecFetch == InitFetch /\ [][NextFetch]_vars
\* Every worker thread the executor started runs on, and the store answers
\* every call it is sent
SpecFetchFair ==
    /\ SpecFetch
    /\ \A q \in QueryNames :
        WF_vars(q \in future_to_query /\ (WorkerFirst(q) \/ WorkerNext(q)))

InitClean == EarlierIdle /\ EmbedInit /\ MetaIdle /\ RagIdle /\ FetchIdle /\ CleanInit /\ RestIdle
NextClean == CleanText
SpecClean == InitClean /\ [][NextClean]_vars

InitClient ==
    /\ EarlierIdle /\ EmbedInit /\ MetaIdle /\ RagIdle /\ FetchIdle /\ CleanInit
    /\ ClientInit /\ StepIdle /\ TypedIdle
NextClient == NewArxivClient \/ NewOCRClient
SpecClient == InitClient /\ [][NextClient]_vars

InitSteps ==
    /\ EarlierIdle /\ EmbedInit /\ MetaIdle /\ RagIdle /\ FetchIdle /\ CleanInit
    /\ ClientIdle /\ StepInit /\ TypedIdle
NextSteps == QueryDataWarehouse \/ CleanDocuments
SpecSteps == InitSteps /\ [][NextSteps]_vars

InitTyped ==
    /\ EarlierIdle /\ EmbedInit /\ MetaIdle /\ RagIdle /\ FetchIdle /\ CleanInit
    /\ ClientIdle /\ StepIdle /\ TypedInit
NextTyped == TypedClean \/ TypedChunk \/ TypedEmbed
SpecTyped == InitTyped /\ [][NextTyped]_vars

Init == InitCrawl
Next == NextCrawl
Spec == SpecCrawl

(***************************************************************************)
(* Properties                                                              *)
(***************************************************************************)
Range(f) == {f[i] : i \in DOMAIN f}
WithLink(store, link) == {i \in DOMAIN store : store[i].link = link}
Text_of(b) == export_to_markdown(ConversionResult(b))
\* index of the first candidate whose conversion succeeds (0: none does)
FirstOk(cands, conv) ==
    IF \E i \in DOMAIN cands : conv[cands[i]]
    THEN CHOOSE i \in DOMAIN cands :
            conv[cands[i]] /\ \A j \in 1..(i - 1) : ~conv[cands[j]]
    ELSE 0

\* C1: in a run of sequential process_paper calls the store never holds two
\* papers with the same link, and a call for a link that is already stored
\* returns True without fetching metadata, fetching the PDF, converting or
\* creating anything.
C1_SequentialDedup ==
    /\ \A i, j \in DOMAIN papers : i # j => papers[i].link # papers[j].link
    /\ (last.called /\ ~last.raised /\ WithLink(last.before, last.link) # {}) =>
           /\ last.ret
           /\ ~last.fetched_meta /\ ~last.fetched_pdf
           /\ last.tried = <<>>
           /\ ~last.created
           /\ papers = last.before
C1_Witness ==
    /\ last.called /\ last.ret
    /\ WithLink(last.before, last.link) # {}
    /\ Len(papers) = 1
    /\ idx = 2

\* C2: whichever backend of the candidate list is the first to succeed, ocr
\* returns that backend's exported markdown text, having attempted the
\* candidates before it and none after it.
C2_FirstSuccessWins ==
    ocr_call.called =>
        LET k == FirstOk(ocr_call.candidates, ocr_call.conv)
        IN  k # 0 =>
               /\ ocr_call.exc = "none"
               /\ ocr_call.ret = Text_of(ocr_call.candidates[k])
               /\ ocr_call.tried = SubSeq(ocr_call.candidates, 1, k)

\* C3: ocr returns None, without raising, exactly when every candidate was
\* attempted once, in list order, and each failed with a conversion error.
\* (Stated for the non-empty candidate lists.)
C3_ExhaustionReturnsNone ==
    (ocr_call.called /\ ocr_call.candidates # <<>>) =>
        ((ocr_call.exc = "none" /\ ocr_call.ret = None) <=>
            /\ FirstOk(ocr_call.candidates, ocr_call.conv) = 0
            /\ ocr_call.tried = ocr_call.candidates)

\* C4: when the store answers, the metadata and PDF fetches succeed and at
\* least one available backend converts the PDF, process_paper persists one
\* paper whose content is the text of the first backend that converts, and
\* returns True, also when an earlier backend failed first.
C4_OneWorkingBackendPersists ==
    LET avail == InitBackends(tesseract_installed)
        k == FirstOk(avail, last.env.conv)
    IN  (/\ last.called
         /\ WithLink(last.before, last.link) = {}
         /\ last.env.lookup = "ok" /\ last.env.meta = "ok" /\ last.env.pdf = "ok"
         /\ last.env.save = "ok"
         /\ k # 0) =>
            /\ last.ret
            /\ papers = Append(last.before,
                               [link |-> last.link, content |-> Text_of(avail[k])])

\* C5: when process_paper returns False the stored papers are exactly those
\* stored before the call; when it returns True exactly one paper with the
\* link is stored.
C5_FailureLeavesStore ==
    (last.called /\ ~last.raised) =>
        /\ ~last.ret => papers = last.before
        /\ last.ret => Cardinality(WithLink(papers, last.link)) = 1
C5_Witness ==
    /\ last.called /\ ~last.raised /\ ~last.ret
    /\ last.env.save = "error"
    /\ Len(papers) = 1

\* C6: with process_paper calls interleaved at their store accesses and
\* network calls, at most one paper per link is ever stored.
C6_ConcurrentDedup ==
    \A l \in Links : Cardinality(WithLink(papers, l)) <= 1

\* C7: ocr_backends always equals the list built at initialization, and a call
\* without an explicit candidate list works on that whole list, starting with
\* its first backend, whatever failed in the calls before it.
C7_BackendsUnchanged ==
    /\ ocr_backends = InitBackends(tesseract_installed)
    /\ (ocr_call.called /\ ~ocr_call.arg.given) =>
           /\ ocr_call.candidates = InitBackends(tesseract_installed)
           /\ ocr_call.tried # <<>>
           /\ ocr_call.tried[1] = "easyocr"
C7_Witness ==
    /\ ocr_call.called /\ ~ocr_call.arg.given
    /\ prev_failed.default /\ "easyocr" \in prev_failed.failed
    /\ ocr_call.tried[1] = "easyocr"

\* C8: crawl_links calls process_paper once per link in list order, nothing is
\* raised out of the loop, and the reported metadata has total = number of
\* links and successful = number of calls that returned True.
Successes(rs) == {i \in DOMAIN rs : rs[i].ret}
C8_EveryLinkProcessedOnce ==
    /\ crawl_pc # "raised"
    /\ Len(results) = idx
    /\ \A i \in DOMAIN results : results[i].link = links[i]
    /\ crawl_pc = "returned" =>
           /\ Len(results) = Len(links)
           /\ Get(metadata, "total") = Len(links)
           /\ Get(metadata, "successful") = Cardinality(Successes(results))

\* C9 as stated: the returned list holds every link whose call returned False
\* and no link whose call returned True.
C9_ReportsOnlyFailures ==
    crawl_pc = "returned" =>
        \A i \in DOMAIN results :
            (links[i] \in Range(crawled_links)) <=> ~results[i].ret
\* C9 as amended: crawl_links returns its input list, every link in input order
\* whatever its call returned; the failures show only in the counts, as
\* total - successful.
C9_ReturnsInputLinks ==
    crawl_pc = "returned" =>
        /\ crawled_links = links
        /\ Get(metadata, "total") - Get(metadata, "successful")
               = Len(results) - Cardinality(Successes(results))
C9_Witness ==
    /\ crawl_pc = "returned"
    /\ \E i, j \in DOMAIN results : results[i].ret /\ ~results[j].ret

\* C10: a chunk's id is a function of the chunk's text only: chunking equal
\* texts yields equal sequences of ids, and chunks with equal text have equal
\* ids whatever document and owner they come from.
Ids(cs) == [i \in DOMAIN cs |-> cs[i].id]
C10_ChunkIdFromTextOnly ==
    \A s, t \in Slots :
        (chunked[s].done /\ chunked[t].done) =>
            /\ docs[s].content = docs[t].content =>
                   Ids(chunked[s].chunks) = Ids(chunked[t].chunks)
            /\ \A i \in DOMAIN chunked[s].chunks, j \in DOMAIN chunked[t].chunks :
                   chunked[s].chunks[i].content = chunked[t].chunks[j].content =>
                       chunked[s].chunks[i].id = chunked[t].chunks[j].id
C10_Witness ==
    /\ chunked[1].done /\ chunked[2].done
    /\ docs[1].id # docs[2].id /\ docs[1].expert_id # docs[2].expert_id
    /\ docs[1].content = docs[2].content
    /\ Len(chunked[1].chunks) >= 2
    /\ chunked[1].chunks[1].id # chunked[1].chunks[2].id

\* The list embed was called with (a single record counts as no list here)
EmbedList == IF isinstance_list(emb_call.doc) THEN emb_call.doc.list ELSE <<>>
Homogeneous(l) == \A i \in 1..Len(l) : get_category(l[i]) = get_category(l[1])

\* C11: for a non-empty list of chunks embed returns a list of the same length
\* whose element i has the id, content, parent document id and owner id of
\* input i and the i-th vector the model returned; when the model returns a
\* different number of vectors embed raises and returns nothing.
C11_OrderPreserved ==
    (/\ emb_call.called
     /\ EmbedList # <<>>
     /\ \A i \in 1..Len(EmbedList) : EmbedList[i] \in PaperChunks)
    => LET l == EmbedList
           vectors == EmbeddingModel([i \in 1..Len(l) |-> l[i].content],
                                     emb_call.behaviour)
       IN  IF Len(vectors) = Len(l)
           THEN /\ emb_call.exc = "-"
                /\ isinstance_list(emb_call.ret)
                /\ Len(emb_call.ret.list) = Len(l)
                /\ \A i \in 1..Len(l) :
                    /\ emb_call.ret.list[i].id = l[i].id
                    /\ emb_call.ret.list[i].content = l[i].content
                    /\ emb_call.ret.list[i].document_id = l[i].document_id
                    /\ emb_call.ret.list[i].expert_id = l[i].expert_id
                    /\ emb_call.ret.list[i].embedding = vectors[i]
           ELSE emb_call.exc # "-"
C11_Witness ==
    /\ emb_call.called
    /\ emb_call.behaviour = "aligned"
    /\ Len(EmbedList) = MaxBatch
    /\ \A i \in 1..Len(EmbedList) : EmbedList[i] \in PaperChunks
    /\ EmbedList[1].id # EmbedList[2].id
    /\ EmbedList[1].content # EmbedList[2].content
    /\ emb_call.exc = "-"

\* C12: in every embed call whose model kept its contract, each input record
\* is mapped to the output type of its own category: a query to an EmbeddedQuery
\* (no parent document), a paper chunk to an EmbeddedPaperChunk, also in a
\* batch that holds records of both categories.
C12_DispatchPerRecord ==
    (emb_call.called /\ emb_call.behaviour = "aligned" /\ EmbedList # <<>>)
    => /\ emb_call.exc = "-"
       /\ \A i \in 1..Len(EmbedList) :
            get_category(emb_call.ret.list[i]) = get_category(EmbedList[i])

\* C19: embed invokes the embedding model exactly once when its input is not
\* empty, with all the contents in input order, and not at all for the empty
\* list, for which it returns the empty list.
C19_ModelInvokedOnce ==
    emb_call.called
    => LET l == IF isinstance_list(emb_call.doc) THEN emb_call.doc.list
                ELSE <<emb_call.doc>>
       IN  IF l = <<>>
           THEN /\ emb_call.model_calls = <<>>
                /\ emb_call.exc = "-"
                /\ emb_call.ret = PyList(<<>>)
           ELSE /\ Len(emb_call.model_calls) = 1
                /\ Len(emb_call.model_calls[1]) = Len(l)
                /\ \A i \in 1..Len(l) : emb_call.model_calls[1][i] = l[i].content
C19_Witness ==
    /\ emb_call.called
    /\ Len(EmbedList) = MaxBatch
    /\ EmbedList[1].content # EmbedList[2].content
    /\ Len(emb_call.model_calls) = 1

\* C20: embed mirrors the shape of its input: a single record in gives a
\* single embedded record out, never a list; a list of n records in gives a
\* list of n embedded records out, for every n >= 0. (A call returns when the
\* model kept its contract and the records are of one category.)
C20_ShapeMirrored ==
    emb_call.called
    => /\ emb_call.exc = "-"
          => IF isinstance_list(emb_call.doc)
             THEN /\ isinstance_list(emb_call.ret)
                  /\ Len(emb_call.ret.list) = Len(emb_call.doc.list)
                  /\ \A i \in 1..Len(emb_call.ret.list) :
                        hasattr(emb_call.ret.list[i], "embedding")
             ELSE /\ ~isinstance_list(emb_call.ret)
                  /\ hasattr(emb_call.ret, "embedding")
                  /\ emb_call.ret.id = emb_call.doc.id
       /\ (emb_call.behaviour = "aligned" /\ Homogeneous(EmbedList))
          => emb_call.exc = "-"
C20_Witness ==
    /\ emb_call.called
    /\ ~isinstance_list(emb_call.doc)
    /\ emb_call.exc = "-"
    /\ ~isinstance_list(emb_call.ret)

\* The counter of an entry of the statistics, under either of its two names
NumChunks(entry) ==
    IF hasattr(entry, "num_chunks") THEN entry.num_chunks
    ELSE entry.num_embedded_chunks
\* How many of the records satisfy Test
CountOf(records, Test(_)) == Cardinality({i \in DOMAIN records : Test(records[i])})

\* C13: after any number of calls of _add_chunks_metadata on one accumulator
\* each document's num_chunks is the number of folded records with that
\* document id, each owner's num_chunks the number of folded records of that
\* owner, and each owner's documents holds every distinct document id of that
\* owner exactly once; the same chunk folded twice gives a document count of 2
\* and an owner's documents of size 1. The same for _add_embeddings_metadata.
C13_CountsMatchFolded ==
    IF folded = <<>> THEN \A category \in DOMAIN meta_acc :
                            /\ meta_acc[category].documents = EmptyDict
                            /\ meta_acc[category].experts = EmptyDict
    ELSE
    /\ DOMAIN meta_acc = {"papers"}
    /\ LET papers_md == meta_acc["papers"]
       IN  /\ NumChunks(papers_md) = Len(folded)
           /\ DOMAIN papers_md.documents = {str(folded[i].document_id) : i \in DOMAIN folded}
           /\ \A d \in DOMAIN papers_md.documents :
                NumChunks(papers_md.documents[d]) =
                    CountOf(folded, LAMBDA r : str(r.document_id) = d)
           /\ DOMAIN papers_md.experts = {str(folded[i].expert_id) : i \in DOMAIN folded}
           /\ \A e \in DOMAIN papers_md.experts :
                LET of_owner == {str(folded[i].document_id) :
                                    i \in {j \in DOMAIN folded : str(folded[j].expert_id) = e}}
                    documents == papers_md.experts[e].documents
                IN  /\ NumChunks(papers_md.experts[e]) =
                        CountOf(folded, LAMBDA r : str(r.expert_id) = e)
                    /\ isinstance_list(documents)
                    /\ Range(documents.list) = of_owner
                    /\ Len(documents.list) = Cardinality(of_owner)
           /\ (Len(folded) = 2 /\ folded[1] = folded[2])
              => /\ NumChunks(papers_md.documents[str(folded[1].document_id)]) = 2
                 /\ Len(papers_md.experts[str(folded[1].expert_id)].documents.list) = 1
C13_Witness ==
    /\ meta_calls = 2
    /\ Len(folded) = 2
    /\ folded[1] = folded[2]
    /\ NumChunks(meta_acc["papers"].documents[str(folded[1].document_id)]) = 2

\* The owners' document collections of one of the two statistics of the run
OwnersOf(acc) ==
    UNION {{acc[category].experts[e].documents : e \in DOMAIN acc[category].experts} :
            category \in DOMAIN acc}
\* The documents the outer loop has taken that have chunks, and whether a
\* document with chunks is still to come
TakenWithChunks == {i \in 1..rag_idx : cleaned_documents[i].content # <<>>}
MergesToCome ==
    \E i \in (rag_idx + 1)..Len(cleaned_documents) : cleaned_documents[i].content # <<>>

\* C14 as claimed: within one chunk_and_embed run the owners' document-id sets
\* are turned into sequences exactly once, after the last record was merged
\* and right before the report; between the first and the last merge they are
\* sets.
C14_ConvertedOnceAtTheEnd ==
    /\ (rag_pc \in {"loop", "batches"} /\ TakenWithChunks # {} /\ MergesToCome)
       => \A documents \in OwnersOf(rag_metadata.chunking) : ~isinstance_list(documents)
    /\ (rag_pc = "returned" /\ TakenWithChunks # {})
       => to_lists.chunking = 1 /\ to_lists.embedding = 1

\* C14 amended: every _add_chunks_metadata call of the run, one per document,
\* ends by turning the owners' sets into sequences (and the next call turns
\* the sequence of the owner it touches back into a set), so the sets are
\* converted once per document that has chunks and the statistics hold
\* sequences between the merges of two documents; the embedding statistics are
\* converted once, in the one call before the report; what is reported holds
\* sequences only, each document id once.
C14_ConvertedAtEveryCall ==
    rag_pc # "idle"
    => /\ \A documents \in OwnersOf(rag_metadata.chunking) : isinstance_list(documents)
       /\ to_lists.chunking = Cardinality(TakenWithChunks)
       /\ IF rag_pc = "returned"
          THEN /\ to_lists.embedding = IF embedded_chunks = <<>> THEN 0 ELSE 1
               /\ \A documents \in OwnersOf(rag_metadata.chunking)
                                   \cup OwnersOf(rag_metadata.embedding) :
                    /\ isinstance_list(documents)
                    /\ \A i, j \in DOMAIN documents.list :
                        i # j => documents.list[i] # documents.list[j]
          ELSE to_lists.embedding = 0 /\ rag_metadata.embedding = EmptyDict
C14_Witness ==
    /\ rag_pc = "returned"
    /\ to_lists.chunking = 2
    /\ to_lists.embedding = 1
    /\ \E documents \in OwnersOf(rag_metadata.chunking) : Len(documents.list) = 2

\* All chunks of the run's documents, in document order and window order
RECURSIVE AllChunks(_)
AllChunks(n) ==
    IF n = 0 THEN <<>> ELSE AllChunks(n - 1) \o chunk(cleaned_documents[n])
RECURSIVE Concat(_)
Concat(lists) == IF lists = <<>> THEN <<>> ELSE Head(lists) \o Concat(Tail(lists))

\* C16: chunk_and_embed hands the embedder batches of at most 10 chunks, every
\* chunk of every document in exactly one batch, and returns the embedded
\* chunks in document order and window order: the result is what one embed
\* call on all the chunks gives.
C16_BatchingIsTransparent ==
    /\ \A b \in DOMAIN embed_calls : Len(embed_calls[b]) \in 1..10
    /\ rag_pc = "returned"
       => LET all == AllChunks(Len(cleaned_documents))
          IN  /\ Concat(embed_calls) = [i \in DOMAIN all |-> all[i].id]
              /\ PyList(embedded_chunks) = embed(PyList(all), "aligned").ret
C16_Witness ==
    /\ rag_pc = "returned"
    /\ Len(cleaned_documents) = 2
    /\ \E b \in DOMAIN embed_calls : Len(embed_calls[b]) = 10
    /\ Len(embed_calls[Len(embed_calls)]) = 1
    /\ Len(embed_calls) >= 3
    /\ cleaned_documents[1].id # cleaned_documents[2].id

\* C18: every chunk DocumentChunker.chunk makes of a document carries the
\* document's id, the document's owner id (never null), and as chunk_size and
\* chunk_overlap the 250 and 25 its windows were cut with; every
\* EmbeddedPaperChunk built from a chunk carries the same document id and
\* owner id.
C18_NoOrphanedChunk ==
    (rag_pc # "idle" /\ rag_idx > 0)
    => LET doc == cleaned_documents[rag_idx]
           done == Min(rag_batch * 10, Len(rag_chunks))
           before == Len(embedded_chunks) - done
       IN  /\ \A i \in DOMAIN rag_chunks :
                /\ rag_chunks[i].document_id = doc.id
                /\ rag_chunks[i].document_id \in DocIds
                /\ rag_chunks[i].expert_id = doc.expert_id
                /\ rag_chunks[i].expert_id \in ExpertIds
                /\ rag_chunks[i].metadata.chunk_size = 250
                /\ rag_chunks[i].metadata.chunk_overlap = 25
                /\ Len(rag_chunks[i].content) <= rag_chunks[i].metadata.chunk_size
                /\ i < Len(rag_chunks)
                   => /\ Len(rag_chunks[i].content) >
                            rag_chunks[i].metadata.chunk_size
                            - rag_chunks[i].metadata.chunk_overlap
                      /\ \A k \in 1..Min(rag_chunks[i].metadata.chunk_overlap,
                                         Len(rag_chunks[i + 1].content)) :
                            rag_chunks[i + 1].content[k] =
                                rag_chunks[i].content[
                                    rag_chunks[i].metadata.chunk_size
                                    - rag_chunks[i].metadata.chunk_overlap + k]
           /\ rag_pc # "returned"
              => /\ before >= 0
                 /\ \A j \in 1..done :
                    /\ embedded_chunks[before + j].id = rag_chunks[j].id
                    /\ embedded_chunks[before + j].document_id = doc.id
                    /\ embedded_chunks[before + j].expert_id = doc.expert_id
           /\ \A j \in DOMAIN embedded_chunks :
                /\ embedded_chunks[j].document_id \in DocIds
                /\ embedded_chunks[j].expert_id \in ExpertIds
C18_Witness ==
    /\ rag_pc = "batches"
    /\ rag_batch = 1
    /\ rag_idx = 2
    /\ cleaned_documents[2].id = 1
    /\ cleaned_documents[2].expert_id = 2
    /\ Len(rag_chunks) > 10
    /\ Len(embedded_chunks) > 10

\* C15: in fetch_all_data every submitted query gets exactly one entry of the
\* result map: its worker's documents when the worker returned, the empty list
\* when it raised. No exception leaves fetch_all_data, an entry once made stays
\* as it is whatever the other workers do, and fetch_all_data returns only
\* when every worker has finished.
C15_OneEntryPerQuery ==
    /\ fetch_pc \in {"idle", "collecting", "returned"}
    /\ DOMAIN fetch_results \subseteq future_to_query
    /\ \A q \in DOMAIN fetch_results :
        /\ Completed(futures[q])
        /\ futures[q].pc = "returned" => fetch_results[q] = futures[q].cleaned_documents
        /\ futures[q].pc = "raised" => fetch_results[q] = <<>>
    /\ fetch_pc = "returned"
       => /\ DOMAIN fetch_results = future_to_query
          /\ \A q \in future_to_query : Completed(futures[q])
C15_Witness ==
    /\ fetch_pc = "returned"
    /\ Cardinality(future_to_query) = 2
    /\ futures["papers"].pc = "raised"
    /\ futures["papers"].cleaned_documents # <<>>
    /\ fetch_results["papers"] = <<>>
    /\ \E q \in future_to_query : fetch_results[q] # <<>>

\* The positions of the characters of a text that are neither whitespace nor
\* replaced, in order
Visible(c) == IsKept(c) /\ ~IsSpace(c)
VisiblePositions(text) ==
    SelectSeq([i \in DOMAIN text |-> i], LAMBDA i : Visible(text[i]))

\* C17: clean_text gives the text in which every character that is not a word
\* character, whitespace or one of . , ! ? became a space, every run of
\* whitespace one space, and both ends are trimmed: the result holds the
\* kept characters of the input in order, two of them next to each other
\* where they were next to each other in the input and one space apart
\* otherwise, and nothing else; it has no whitespace at either end and no two
\* whitespace characters in a row; Hello,<TAB>World!!<NEWLINE><NEWLINE><SPACE>
\* <SPACE>foo_bar cleans to "Hello, World!! foo_bar".
C17_CleanTextNormalises ==
    clean_call.called
    => LET text == clean_call.text
           ret == clean_call.ret
           from == VisiblePositions(text)
           to == VisiblePositions(ret)
       IN  /\ \A i \in DOMAIN ret : Visible(ret[i]) \/ ret[i] = " "
           /\ ret # <<>> => ~IsSpace(ret[1]) /\ ~IsSpace(ret[Len(ret)])
           /\ \A i \in 1..(Len(ret) - 1) : ~(IsSpace(ret[i]) /\ IsSpace(ret[i + 1]))
           /\ Len(to) = Len(from)
           /\ \A k \in DOMAIN from : ret[to[k]] = text[from[k]]
           /\ \A k \in 1..(Len(from) - 1) :
                to[k + 1] - to[k] = IF from[k + 1] - from[k] = 1 THEN 1 ELSE 2
           /\ text = HelloWorld
              => ret = <<"H", "e", "l", "l", "o", ",", " ", "W", "o", "r", "l", "d",
                         "!", "!", " ", "f", "o", "o", "_", "b", "a", "r">>
C17_Witness ==
    /\ clean_call.called
    /\ clean_call.text = HelloWorld
    /\ Len(clean_call.ret) = Len(HelloWorld) - 3

\* What __fetch has done so far in one worker: the first call carries no
\* offset, every later call the next_offset of the answer before it, no offset
\* is asked for twice, the loop goes on exactly while the last answer named a
\* next offset, and the documents are the pages in the order they were
\* answered
PagedInOrder(w) ==
    /\ \A i \in DOMAIN w.requested :
        IF i = 1 THEN w.requested[i] = NoOffset
        ELSE /\ w.requested[i] # NoOffset
             /\ w.requested[i] = w.answered[i - 1].next_offset
    /\ \A i, j \in DOMAIN w.requested : w.requested[i] = w.requested[j] => i = j
    /\ w.cleaned_documents = Concat([i \in DOMAIN w.answered |-> w.answered[i].documents])
    /\ \A i, j \in DOMAIN w.cleaned_documents :
        w.cleaned_documents[i] = w.cleaned_documents[j] => i = j
    /\ w.pc = "paging"
       => /\ Len(w.answered) = Len(w.requested)
          /\ w.answered[Len(w.answered)].next_offset # NoOffset
    /\ w.pc = "returned" /\ w.answered # <<>>
       => /\ Len(w.answered) = Len(w.requested)
          /\ w.answered[Len(w.answered)].next_offset = NoOffset

FullyInitialised(obj) == hasattr(obj, "_session") /\ hasattr(obj, "_ocr")

\* C22: every ArxivClient() that returns hands back the one instance, with
\* its HTTP session and its OCR client; one session was created and one
\* probe was run, whatever happened in the constructions before it.
C22_OneInitialisedInstance ==
    \A i \in DOMAIN constructions :
        constructions[i].exc = "-"
        => /\ constructions[i].ret = _instance
           /\ FullyInitialised(constructions[i].ret)
           /\ sessions = 1
           /\ probes = 1

\* C23: every OCRClient() completes, whatever the probe did, and its
\* ocr_backends is easyocr followed by tesseract_cli, tesseract_cli left out
\* exactly when the probe did not exit with status zero.
C23_InitCompletesForEveryProbe ==
    \A i \in DOMAIN ocr_clients :
        /\ ocr_clients[i].exc = "-"
        /\ ocr_clients[i].ocr_backends =
              IF ocr_clients[i].probe = "exit 0"
              THEN <<"easyocr", "tesseract_cli">>
              ELSE <<"easyocr">>

\* The windows of a text of length L, numbered from 0: window i starts after
\* i * (size - overlap) characters and ends after min(L, start + size)
WindowStart(i) == i * (CHUNK_SIZE - CHUNK_OVERLAP)
WindowEnd(i, L) == Min(L, WindowStart(i) + CHUNK_SIZE)
WindowsOf(L) == {i \in 0..(L \div (CHUNK_SIZE - CHUNK_OVERLAP)) : WindowStart(i) < L}

\* The chunks of the document in slot s are the windows of its text, in
\* order, none of them empty, and every position of the text lies in one
IsWindowed(s) ==
    LET text == docs[s].content
        L == Len(text)
        out == chunked[s].chunks
    IN  /\ Len(out) = Cardinality(WindowsOf(L))
        /\ \A i \in WindowsOf(L) :
            /\ out[i + 1].content = SubSeq(text, WindowStart(i) + 1, WindowEnd(i, L))
            /\ Len(out[i + 1].content) > 0
        /\ \A pos \in 1..L :
            \E i \in WindowsOf(L) : WindowStart(i) < pos /\ pos <= WindowEnd(i, L)

C25_CleanedContentIsCleanText ==
    step_call.step = "clean_documents" /\ step_call.exc = "-"
    => /\ Len(step_call.ret) = Len(step_call.args)
       /\ \A i \in DOMAIN step_call.args :
            /\ step_call.ret[i].id = step_call.args[i].id
            /\ step_call.ret[i].expert_id = step_call.args[i].expert_id.id
            /\ step_call.ret[i].content = clean_text(step_call.args[i].content)

\* C28: run on an empty input, each feature engineering step ends normally
\* with an empty list and its metadata reported: query_data_warehouse for
\* domains that have no papers, clean_documents for an empty list,
\* chunk_and_embed for an empty list.
C28_EmptyInputEmptyOutput ==
    /\ step_call.step = "query_data_warehouse"
       /\ (\A i \in DOMAIN warehouse.papers :
             \A k \in DOMAIN step_call.args :
                warehouse.papers[i].expert_id.domain # step_call.args[k])
       => /\ step_call.exc = "-"
          /\ step_call.ret = <<>>
          /\ step_call.metadata.num_documents = 0
    /\ step_call.step = "clean_documents" /\ step_call.args = <<>>
       => /\ step_call.exc = "-"
          /\ step_call.ret = <<>>
          /\ step_call.metadata.num_documents = 0
    /\ rag_pc = "returned" /\ cleaned_documents = <<>>
       => /\ embedded_chunks = <<>>
          /\ rag_metadata.num_documents = 0
          /\ rag_metadata.num_embedded_chunks = 0

\* C26: every record a stage constructs is given all the fields its declared
\* type requires, and every attribute a stage reads from its input is a
\* field of the input's declared type: no stage ends with a validation error
\* or an attribute error.
C26_StagesAgreeOnFields ==
    \A stage \in DOMAIN typed_results :
        typed_results[stage] # NotRun
        => /\ typed_results[stage].exc = "-"
           /\ typed_results[stage].names = {}

\* The sum of the counters of the entries of a dict
RECURSIVE SumOfCounts(_)
SumOfCounts(entries) ==
    IF DOMAIN entries = {} THEN 0
    ELSE LET k == CHOOSE key \in DOMAIN entries : TRUE
         IN  NumChunks(entries[k])
             + SumOfCounts([key \in DOMAIN entries \ {k} |-> entries[key]])

\* The document keys an owner's entry lists, as a set or as a list
Listed(documents) ==
    IF isinstance_list(documents) THEN Range(documents.list) ELSE documents.set

\* C27: after every call of _add_chunks_metadata or _add_embeddings_metadata
\* and for every category, the category total is the sum of the per-document
\* counts and the sum of the per-owner counts, and every document id listed
\* under an owner is a key of the category's documents.
C27_TotalsAreSums ==
    \A category \in DOMAIN meta_acc :
        LET md == meta_acc[category]
        IN  /\ NumChunks(md) = SumOfCounts(md.documents)
            /\ NumChunks(md) = SumOfCounts(md.experts)
            /\ \A e \in DOMAIN md.experts :
                Listed(md.experts[e].documents) \subseteq DOMAIN md.documents
C27_Witness ==
    /\ meta_calls = 2
    /\ meta_fn = "_add_chunks_metadata"
    /\ \E category \in DOMAIN meta_acc :
        LET md == meta_acc[category]
        IN  /\ NumChunks(md) = MaxFolded
            /\ Cardinality(DOMAIN md.experts) = 2
            /\ Cardinality(DOMAIN md.documents) = 2
            /\ \E e \in DOMAIN md.experts : Cardinality(Listed(md.experts[e].documents)) = 2

====
